---- MODULE Spec2Model ----
(***************************************************************************)
(* Stellar Drift: the galaxy generator (utils/gameUtils.ts), the game      *)
(* state store (store/useGameStore.ts) and the game loop                   *)
(* (utils/GameLoop.ts) as state machines.                                  *)
(*                                                                         *)
(* Groups of variables, one per component; a specification moves    *)
(* the variables of the components it is about and leaves the others at    *)
(* their initial values.                                                   *)
(***************************************************************************)
EXTENDS Integers, Sequences, FiniteSets, TLC

(***************************************************************************)
(* Bounds of the model.                                                    *)
(***************************************************************************)
\* number of star systems generated (25 names in the source)
NumSystems == 3
\* systems are placed on grid points 0..MaxCoord (200 units apart)
MaxCoord == 3
\* stations per system are 1..MaxStations (1..3 in the source)
MaxStations == 2
\* asteroids per system are 1..MaxAsteroids (4..10 in the source)
MaxAsteroids == 1
\* missions per station are 1..MaxMissions (2..6 in the source)
MaxMissions == 1
\* damaged gates created by the pair loop before the content seeding starts
MaxGates == 1
\* Date.now() advances at most to MaxNow during one generation
MaxNow == 1
\* the content seeding is followed from system SeededBefore + 1 on
SeededBefore == 1
\* generateUniqueStoreId is called at most MaxStoreIds times after a reset
MaxStoreIds == 2
\* at most MaxCalls actions of the store are called
MaxCalls == 3
\* at most MaxTicks tick bodies of the game loop run
MaxTicks == 3

VARIABLES
  \* ---- generateGalaxy ----
  gpc,                \* position of generateGalaxy: "edges", "bfs", "repair", "content", "done"
  gi, gj,             \* loop indices of the forEach loops (key order of `systems`)
  position,           \* systems[id].position
  connections,        \* systems[id].connections, a list of system indices
  worldObjects,       \* systems[id].worldObjects, a list of records
  plannedConnections, \* the local list plannedConnections
  visited,            \* the Set `visited`, in insertion order
  queue,              \* the BFS queue
  uniqueIdCounter,    \* the module-level counter of generateUniqueId
  now,                \* Date.now()
  cpc,                \* position inside the content seeding of system gi
  count, k, st,       \* stationCount / asteroidCount / missionCount, the loop index i, the station index
  stations,           \* systems[id].stations, a list of [id, missions]
  asteroids,          \* systems[id].asteroids, the list of their ids
  missions,           \* systems[id].missions, the list of their ids
  \* ---- useGameStore ----
  player,             \* state.player
  currentSystem,      \* state.currentSystem
  discovered,         \* galaxy[id].discovered
  credits,            \* state.credits
  enemies,            \* state.enemies
  projectiles,        \* state.projectiles
  explosions,         \* state.explosions
  playerInput,        \* state.playerInput
  gameTime,           \* state.gameTime, in 60ths of a second
  storeIdCounter,     \* the module-level counter of generateUniqueStoreId
  last,               \* the last operation called and its argument (history)
  calls,              \* how many actions of the store were called (history)
  \* ---- GameLoop ----
  isRunning,
  animationFrameId,
  lastTime,
  lastStateUpdate,
  internalPlayerState,
  internalEnemies,
  internalProjectiles,
  internalExplosions,
  gameLoopIdCounter,  \* the module-level counter of generateUniqueGameId
  \* ---- the browser ----
  clock,              \* performance.now(), in 60ths of a second
  pendingFrames,      \* the requestAnimationFrame callbacks not yet run or cancelled
  nextFrameId,        \* the handle the next requestAnimationFrame returns
  ticks,              \* how many tick bodies ran since start() (history)
  syncs,              \* how many of them called syncToReactState (history)
  thrown,             \* whether the last tick body threw (history)
  syncedAt,           \* the time of the last sync, or of start() (history)
  preJump,            \* what the last successful jump left behind (history)
  \* ---- useGameStore: trading, missions, mining ----
  factions,           \* state.factions[id].reputation
  activeMissions,     \* state.activeMissions
  trackedMissionId,   \* state.trackedMissionId
  rocks,              \* galaxy[id].asteroids with their fields, by system
  sharedArrays,       \* whether player.cargo / player.modules of the store is the
                      \* array object that internalPlayerState holds
  outcome,            \* what the last call returned, or "threw" (history)
  ledger              \* the quantities added and removed by successful calls (history)

graphVars == <<position, connections, plannedConnections, visited, queue>>

contentVars == <<cpc, count, k, st, stations, asteroids, missions>>

galaxyVars == <<gpc, gi, gj, graphVars, worldObjects, uniqueIdCounter, now, contentVars>>

storeVars == <<player, currentSystem, discovered, credits, enemies, projectiles,
               explosions, playerInput, gameTime, storeIdCounter>>

loopVars == <<isRunning, animationFrameId, lastTime, lastStateUpdate,
              internalPlayerState, internalEnemies, internalProjectiles,
              internalExplosions, gameLoopIdCounter>>

browserVars == <<clock, pendingFrames, nextFrameId>>

historyVars == <<last, calls, ticks, syncs, thrown, syncedAt, preJump>>

stationVars == <<factions, activeMissions, trackedMissionId, rocks, outcome, ledger>>

gameVars == <<storeVars, loopVars, browserVars, historyVars, stationVars, sharedArrays>>

vars == <<galaxyVars, gameVars>>

Systems == 1..NumSystems

(***************************************************************************)
(* Helpers on lists.                                                       *)
(***************************************************************************)
Includes(list, x) == \E n \in 1..Len(list) : list[n] = x

NoDuplicates(list) == \A m, n \in 1..Len(list) : m # n => list[m] # list[n]

DigitChar(d) == <<"0", "1", "2", "3", "4", "5", "6", "7", "8", "9">>[d + 1]

RECURSIVE Digits(_)
\* the decimal rendering of a number inside a template string
Digits(n) ==
  IF n < 10 THEN <<DigitChar(n)>> ELSE Digits(n \div 10) \o <<DigitChar(n % 10)>>

(***************************************************************************)
(* Numbers.  Positions are kept in 1/10000 of a unit, shields and energy   *)
(* in twelfths, times in 60ths of a second, angles in tenths of a degree;  *)
(* a field that holds NaN (or a timestamp that is undefined) holds the     *)
(* value NaN below, and the operators follow JavaScript's rules for it.    *)
(***************************************************************************)
NaN == -999999999

Pos(u) == 10000 * u

Stat(u) == 12 * u

IsNaN(a) == a = NaN

Add(a, b) == IF IsNaN(a) \/ IsNaN(b) THEN NaN ELSE a + b

Sub(a, b) == IF IsNaN(a) \/ IsNaN(b) THEN NaN ELSE a - b

\* a * b for a plain number b
Scale(a, b) == IF IsNaN(a) THEN NaN ELSE a * b

\* the comparisons are false when an operand is NaN
Less(a, b) == ~IsNaN(a) /\ ~IsNaN(b) /\ a < b

Greater(a, b) == ~IsNaN(a) /\ ~IsNaN(b) /\ a > b

AtLeast(a, b) == ~IsNaN(a) /\ ~IsNaN(b) /\ a >= b

AtMost(a, b) == ~IsNaN(a) /\ ~IsNaN(b) /\ a <= b

MathMin(a, b) == IF IsNaN(a) \/ IsNaN(b) THEN NaN ELSE IF a < b THEN a ELSE b

MathAbs(a) == IF IsNaN(a) THEN NaN ELSE IF a < 0 THEN -a ELSE a

\* a / b rounded to the nearest whole number (b > 0)
RoundDiv(a, b) ==
  IF IsNaN(a) THEN NaN
  ELSE IF a >= 0 THEN (2 * a + b) \div (2 * b) ELSE -((2 * (-a) + b) \div (2 * b))

\* 1000 * sin of an angle given in tenths of a degree (Bhaskara's formula,
\* within 2 of the true value, exact at 0, 30, 90, 150 and 180 degrees)
Sin1000(a) ==
  LET d == a % 3600
      h == IF d <= 1800 THEN d ELSE d - 1800
      q == (h * (1800 - h)) \div 100
      v == (4000 * q) \div (40500 - q)
  IN  IF d <= 1800 THEN v ELSE -v

Cos1000(a) == Sin1000(a + 900)

Origin == [x |-> 0, y |-> 0]

(***************************************************************************)
(* data/gameData.ts                                                        *)
(***************************************************************************)
\* SHIP_MODULES[id].type
ModuleType(id) ==
  CASE id \in {"basic-laser", "pulse-cannon", "missile-launcher"} -> "weapon"
    [] id \in {"shield-booster", "armor-plating"} -> "defense"
    [] id \in {"cargo-hold", "energy-cell"} -> "utility"
    [] OTHER -> "special"

\* SHIP_MODULES[id].stats[stat], 0 for a stat the module does not have
ModuleStat(id, stat) ==
  CASE id = "pulse-cannon" /\ stat = "damage" -> 10
    [] id = "pulse-cannon" /\ stat = "energyCost" -> -2
    [] id = "pulse-cannon" /\ stat = "projectileSpeed" -> 50
    [] id = "missile-launcher" /\ stat = "damage" -> 25
    [] id = "missile-launcher" /\ stat = "energyCost" -> 5
    [] id = "missile-launcher" /\ stat = "projectileSpeed" -> -50
    [] id = "shield-booster" /\ stat = "shieldBonus" -> 25
    [] id = "armor-plating" /\ stat = "healthBonus" -> 30
    [] id = "cargo-hold" /\ stat = "cargoBonus" -> 10
    [] id = "energy-cell" /\ stat = "energyBonus" -> 50
    [] id = "stealth-plating" /\ stat = "detectionReduction" -> 30
    [] id = "scan-jammer" /\ stat = "scanImmunity" -> 10
    [] id = "scan-jammer" /\ stat = "energyCost" -> 50
    [] OTHER -> 0

\* SHIP_MODULES[id].price
ModulePrice(id) ==
  CASE id = "basic-laser" -> 0
    [] id = "pulse-cannon" -> 2500
    [] id = "missile-launcher" -> 5000
    [] id = "shield-booster" -> 1500
    [] id = "armor-plating" -> 2000
    [] id = "cargo-hold" -> 1000
    [] id = "energy-cell" -> 1200
    [] id = "stealth-plating" -> 8000
    [] OTHER -> 12000

\* the keys of SHIP_MODULES
ModuleIds ==
  {"basic-laser", "pulse-cannon", "missile-launcher", "shield-booster",
   "armor-plating", "cargo-hold", "energy-cell", "stealth-plating", "scan-jammer"}

\* SHIP_HULLS['light-freighter'].moduleSlots
ModuleSlots == 4

\* the keys of COMMODITIES that the model trades
CommodityIds == {"food", "metals"}

\* FACTIONS[id].reputation
FACTIONS ==
  [f \in {"united-colonies", "deep-space-collective", "void-pirates", "independent"} |->
     CASE f = "united-colonies" -> 50
       [] f = "deep-space-collective" -> 0
       [] f = "void-pirates" -> -25
       [] OTHER -> 25]

\* trackedMissionId: undefined
NoMission == <<"undefined">>

\* STARTING_SHIP_CONFIG
StartingModules == <<"basic-laser", "shield-booster">>

StartingCredits == 1000

(***************************************************************************)
(* useGameStore.ts: the initial state.                                     *)
(***************************************************************************)
\* the player of createInitialGameState, for a starting station at (400, 0):
\* the light freighter's hull values
InitialPlayer ==
  [position |-> [x |-> Pos(400) + Pos(100), y |-> Pos(0) + Pos(100)],
   velocity |-> Origin,
   rotation |-> 0,
   health |-> 100,
   maxHealth |-> 100,
   shields |-> Stat(50),
   maxShields |-> Stat(50),
   energy |-> Stat(100),
   maxEnergy |-> Stat(100),
   fuel |-> 100,
   maxFuel |-> 100,
   cargo |-> <<>>,
   maxCargo |-> 20,
   modules |-> StartingModules]

\* create(...): createInitialGameState() and the defaults after it
InitStore ==
  /\ player = InitialPlayer
  /\ currentSystem = 1
  /\ discovered = [s \in Systems |-> s = 1]
  /\ credits = StartingCredits
  /\ enemies = <<>>
  /\ projectiles = <<>>
  /\ explosions = <<>>
  /\ playerInput = [isThrusting |-> FALSE, targetAngle |-> 0]
  /\ gameTime = 0
  /\ storeIdCounter = 0
  /\ factions = FACTIONS
  /\ activeMissions = <<>>
  /\ trackedMissionId = NoMission

\* null
Null == [null |-> TRUE]

\* new GameLoop(): the field initialisers
InitLoop ==
  /\ isRunning = FALSE
  /\ animationFrameId = 0
  /\ lastTime = 0
  /\ lastStateUpdate = 0
  /\ internalPlayerState = Null
  /\ internalEnemies = <<>>
  /\ internalProjectiles = <<>>
  /\ internalExplosions = <<>>
  /\ gameLoopIdCounter = 0

InitBrowser ==
  /\ clock = 0
  /\ pendingFrames = {}
  /\ nextFrameId = 1

InitHistory ==
  /\ last = [op |-> "create", arg |-> 0]
  /\ calls = 0
  /\ ticks = 0
  /\ syncs = 0
  /\ thrown = FALSE
  /\ syncedAt = 0
  /\ preJump = [active |-> FALSE, ids |-> {}]
  /\ sharedArrays = [cargo |-> FALSE, modules |-> FALSE]
  /\ outcome = "none"
  /\ ledger = [added |-> 0, removed |-> 0]

\* an asteroid of generateGalaxy of the given size that has been mined
\* `mined` times: health starts at size * 2 and the only stack of resources
\* at quantity
Asteroid(id, at, size, quantity, mined) ==
  [id |-> id,
   position |-> at,
   size |-> size,
   health |-> size * 2 - 10 * mined,
   resources |-> IF quantity > mined
                 THEN <<[id |-> "iron", quantity |-> quantity - mined]>>
                 ELSE <<>>]

\* the asteroids as generateGalaxy leaves them: size 25, 5 units of iron, 20
\* right of the place where the player starts
UntouchedRocks ==
  [s \in Systems |->
     [n \in 1..Len(asteroids[s]) |->
        Asteroid(asteroids[s][n], [x |-> Pos(520), y |-> Pos(100)], 25, 5, 0)]]

\* the modules are loaded and nothing has been called
GameIdle == InitStore /\ InitLoop /\ InitBrowser /\ InitHistory /\ rocks = UntouchedRocks

(***************************************************************************)
(* gameUtils.ts                                                            *)
(***************************************************************************)
\* `${prefix}-${Date.now()}-${++uniqueIdCounter}`, as the list of its pieces;
\* counter is the value after the increment
generateUniqueId(prefix, time, counter) ==
  prefix \o <<"-">> \o Digits(time) \o <<"-">> \o Digits(counter)

\* the square of distance(pos1, pos2)
DistSq(pos1, pos2) ==
  (pos1.x - pos2.x) * (pos1.x - pos2.x) + (pos1.y - pos2.y) * (pos1.y - pos2.y)

\* dist < 250
ConnectionRange == 250

InRange(a, b) ==
  DistSq(position[a], position[b]) < ConnectionRange * ConnectionRange

\* the ids of the systems, as the pieces between which the template strings
\* put their hyphens
SystemIdOf(s) ==
  CASE s = 1 -> <<"alpha", "-", "centauri">>
    [] s = 2 -> <<"proxima">>
    [] s = 3 -> <<"6", "1", "-", "cygni">>
    [] OTHER -> <<"gj", "-">> \o Digits(100 + s)

\* the points a system can be placed on
Points == { [x |-> 200 * c, y |-> 0] : c \in 0..MaxCoord }

\* the pair after (i, j) in the nested forEach, skipping system.id === otherSystem.id
NextPair(i, j) ==
  LET j1 == IF j + 1 = i THEN j + 2 ELSE j + 1
  IN  IF j1 <= NumSystems THEN <<i, j1>>
      ELSE IF i + 1 <= NumSystems THEN <<i + 1, 1>>
      ELSE <<0, 0>>

\* what every step of the pair loop does after its body
AdvancePair ==
  LET p == NextPair(gi, gj)
  IN  IF p = <<0, 0>>
      THEN /\ gpc' = "bfs"
           /\ gi' = 0
           /\ gj' = 0
           /\ visited' = <<1>>
           /\ queue' = <<1>>
      ELSE /\ gpc' = "edges"
           /\ gi' = p[1]
           /\ gj' = p[2]
           /\ UNCHANGED <<visited, queue>>

\* the pair is out of range, or Math.random() >= 0.4
SkipPair ==
  /\ UNCHANGED gameVars
  /\ gpc = "edges"
  /\ AdvancePair
  /\ UNCHANGED <<position, connections, worldObjects, plannedConnections,
                 uniqueIdCounter, now, contentVars>>

\* the 10% branch: a damaged jump gate instead of the connection
DamagedGate ==
  /\ UNCHANGED gameVars
  /\ gpc = "edges"
  /\ InRange(gi, gj)
  /\ uniqueIdCounter' = uniqueIdCounter + 1
  /\ worldObjects' =
       [worldObjects EXCEPT ![gi] = Append(@,
          [id |-> generateUniqueId(<<"damaged", "-", "gate">>, now, uniqueIdCounter + 1),
           type |-> "DamagedJumpGate",
           status |-> "DAMAGED"])]
  /\ plannedConnections' = Append(plannedConnections, [from |-> gi, to |-> gj])
  /\ AdvancePair
  /\ UNCHANGED <<position, connections, now, contentVars>>

\* the two guarded pushes of the normal connection
LinkBoth(conns, a, b) ==
  LET c1 == IF Includes(conns[a], b) THEN conns
            ELSE [conns EXCEPT ![a] = Append(@, b)]
  IN  IF Includes(c1[b], a) THEN c1
      ELSE [c1 EXCEPT ![b] = Append(@, a)]

\* the normal connection
LinkPair ==
  /\ UNCHANGED gameVars
  /\ gpc = "edges"
  /\ InRange(gi, gj)
  /\ connections' = LinkBoth(connections, gi, gj)
  /\ AdvancePair
  /\ UNCHANGED <<position, worldObjects, plannedConnections, uniqueIdCounter, now,
                 contentVars>>

RECURSIVE VisitConnections(_, _, _)
\* current.connections.forEach: <<visited, queue>> after it
VisitConnections(conns, vis, q) ==
  IF conns = <<>> THEN <<vis, q>>
  ELSE IF ~Includes(vis, Head(conns)) /\ Head(conns) \in Systems
       THEN VisitConnections(Tail(conns), Append(vis, Head(conns)), Append(q, Head(conns)))
       ELSE VisitConnections(Tail(conns), vis, q)

\* one iteration of while (queue.length > 0)
BfsStep ==
  /\ UNCHANGED gameVars
  /\ gpc = "bfs"
  /\ queue # <<>>
  /\ LET r == VisitConnections(connections[Head(queue)], visited, Tail(queue))
     IN  /\ visited' = r[1]
         /\ queue' = r[2]
  /\ UNCHANGED <<gpc, gi, gj, position, connections, worldObjects,
                 plannedConnections, uniqueIdCounter, now, contentVars>>

\* the while loop ends
BfsDone ==
  /\ UNCHANGED gameVars
  /\ gpc = "bfs"
  /\ queue = <<>>
  /\ gpc' = "repair"
  /\ gi' = 1
  /\ UNCHANGED <<gj, position, connections, worldObjects, plannedConnections,
                 visited, queue, uniqueIdCounter, now, contentVars>>

RECURSIVE ClosestReachable(_, _, _, _)
\* visited.forEach: closest starts as the starting system, closestDist as
\* Infinity (here -1); a strictly smaller distance replaces it
ClosestReachable(sys, vis, closest, closestDist) ==
  IF vis = <<>> THEN closest
  ELSE LET d == DistSq(position[sys], position[Head(vis)])
       IN  IF closestDist = -1 \/ d < closestDist
           THEN ClosestReachable(sys, Tail(vis), Head(vis), d)
           ELSE ClosestReachable(sys, Tail(vis), closest, closestDist)

\* a mutant of RepairLink: only the unreachable system records the edge
RepairLinkOneWay(conns, sys, closest) ==
  [conns EXCEPT ![sys] = Append(@, closest)]

\* system.connections.push(closest); closestSystem.connections.push(systemId)
RepairLink(conns, sys, closest) ==
  [conns EXCEPT ![sys] = Append(@, closest), ![closest] = Append(@, sys)]

\* one iteration of the repair forEach over Object.keys(systems)
RepairStep ==
  /\ UNCHANGED gameVars
  /\ gpc = "repair"
  /\ IF ~Includes(visited, gi)
     THEN LET closest == ClosestReachable(gi, visited, 1, -1)
          IN  /\ connections' = RepairLink(connections, gi, closest)
              /\ visited' = Append(visited, gi)
     ELSE UNCHANGED <<connections, visited>>
  /\ IF gi < NumSystems
     THEN gi' = gi + 1 /\ gpc' = "repair"
     ELSE gi' = 1 /\ gpc' = "content"
  /\ UNCHANGED <<gj, position, worldObjects, plannedConnections, queue,
                 uniqueIdCounter, now, contentVars>>

\* no content has been seeded
NoContent ==
  /\ cpc = "begin"
  /\ count = 0
  /\ k = 0
  /\ st = 0
  /\ stations = [s \in Systems |-> <<>>]
  /\ asteroids = [s \in Systems |-> <<>>]
  /\ missions = [s \in Systems |-> <<>>]

\* the call of generateGalaxy: the counter is reset, the systems are placed
\* (on distinct points) with nothing in their lists
InitGalaxy ==
  /\ gpc = "edges"
  /\ gi = 1
  /\ gj = 2
  /\ position \in { p \in [Systems -> Points] :
                      \A a, b \in Systems : a # b => p[a] # p[b] }
  /\ connections = [s \in Systems |-> <<>>]
  /\ worldObjects = [s \in Systems |-> <<>>]
  /\ plannedConnections = <<>>
  /\ visited = <<>>
  /\ queue = <<>>
  /\ uniqueIdCounter = 0
  /\ now = 0
  /\ NoContent
  /\ GameIdle

NextGalaxy ==
  \/ SkipPair
  \/ DamagedGate
  \/ LinkPair
  \/ BfsStep
  \/ BfsDone
  \/ RepairStep

\* generateGalaxy up to the end of the connectivity repair; the content
\* seeding that follows never touches position or connections
SpecGalaxy == InitGalaxy /\ [][NextGalaxy]_vars

RECURSIVE Reach(_)
\* the systems reachable from the set S over connections
Reach(S) ==
  LET T == S \cup { t \in Systems : \E s \in S : Includes(connections[s], t) }
  IN  IF T = S THEN S ELSE Reach(T)

\* C1: when the connectivity repair has finished, every system is reachable
\* from the first system over the connections lists, whatever edges the
\* random pass created
C1_Connected ==
  gpc = "content" => Reach({1}) = Systems

\* the repair ran and connected two systems that are out of connection range
C1_Witness ==
  /\ gpc = "content"
  /\ \E a, b \in Systems : Includes(connections[a], b) /\ ~InRange(a, b)

(***************************************************************************)
(* generateGalaxy, the content seeding (one system after the other).       *)
(***************************************************************************)
\* Date.now() moves on while the generator runs
ClockTick ==
  /\ UNCHANGED gameVars
  /\ gpc = "content"
  /\ now < MaxNow
  /\ now' = now + 1
  /\ UNCHANGED <<gpc, gi, gj, graphVars, worldObjects, uniqueIdCounter, contentVars>>

\* const stationCount = Math.floor(Math.random() * 3) + 1
BeginStations ==
  /\ UNCHANGED gameVars
  /\ gpc = "content"
  /\ cpc = "begin"
  /\ \E c \in 1..MaxStations : count' = c
  /\ k' = 0
  /\ cpc' = "stations"
  /\ UNCHANGED <<gpc, gi, gj, graphVars, worldObjects, uniqueIdCounter, now,
                 st, stations, asteroids, missions>>

\* a mutant of StationId: the counter is left out of the id
StationIdNoCounter(s, time, counter) ==
  SystemIdOf(s) \o <<"-", "station", "-">> \o Digits(time)

\* generateUniqueId(`${system.id}-station`)
StationId(s, time, counter) ==
  generateUniqueId(SystemIdOf(s) \o <<"-", "station">>, time, counter)

\* one iteration of the station loop
GenStation ==
  /\ UNCHANGED gameVars
  /\ gpc = "content"
  /\ cpc = "stations"
  /\ k < count
  /\ uniqueIdCounter' = uniqueIdCounter + 1
  /\ stations' = [stations EXCEPT ![gi] = Append(@,
                    [id |-> StationId(gi, now, uniqueIdCounter + 1), missions |-> <<>>])]
  /\ k' = k + 1
  /\ UNCHANGED <<gpc, gi, gj, graphVars, worldObjects, now, cpc, count, st,
                 asteroids, missions>>

\* const asteroidCount = Math.floor(Math.random() * 7) + 4
BeginAsteroids ==
  /\ UNCHANGED gameVars
  /\ gpc = "content"
  /\ cpc = "stations"
  /\ k = count
  /\ \E c \in 1..MaxAsteroids : count' = c
  /\ k' = 0
  /\ cpc' = "asteroids"
  /\ UNCHANGED <<gpc, gi, gj, graphVars, worldObjects, uniqueIdCounter, now,
                 st, stations, asteroids, missions>>

\* one iteration of the asteroid loop
GenAsteroid ==
  /\ UNCHANGED gameVars
  /\ gpc = "content"
  /\ cpc = "asteroids"
  /\ k < count
  /\ uniqueIdCounter' = uniqueIdCounter + 1
  /\ asteroids' = [asteroids EXCEPT ![gi] = Append(@,
       generateUniqueId(SystemIdOf(gi) \o <<"-", "asteroid">>, now, uniqueIdCounter + 1))]
  /\ k' = k + 1
  /\ UNCHANGED <<gpc, gi, gj, graphVars, worldObjects, now, cpc, count, st,
                 stations, missions>>

\* const missionCount = Math.floor(Math.random() * 5) + 2, for station st1
BeginMissions(st1) ==
  /\ \E c \in 1..MaxMissions : count' = c
  /\ k' = 0
  /\ st' = st1
  /\ cpc' = "missions"

\* the 20% branch: a broken relay, then on to the missions of the first station
BrokenRelay ==
  /\ UNCHANGED gameVars
  /\ gpc = "content"
  /\ cpc = "asteroids"
  /\ k = count
  /\ uniqueIdCounter' = uniqueIdCounter + 1
  /\ worldObjects' =
       [worldObjects EXCEPT ![gi] = Append(@,
          [id |-> generateUniqueId(<<"broken", "-", "relay">>, now, uniqueIdCounter + 1),
           type |-> "BrokenRelay",
           status |-> "DAMAGED"])]
  /\ BeginMissions(1)
  /\ UNCHANGED <<gpc, gi, gj, graphVars, now, stations, asteroids, missions>>

\* no relay in this system
NoRelay ==
  /\ UNCHANGED gameVars
  /\ gpc = "content"
  /\ cpc = "asteroids"
  /\ k = count
  /\ BeginMissions(1)
  /\ UNCHANGED <<gpc, gi, gj, graphVars, worldObjects, uniqueIdCounter, now,
                 stations, asteroids, missions>>

\* generateMission: baseMission.id = generateUniqueId('mission'); the same
\* mission object is pushed to station.missions and system.missions
GenMission ==
  /\ UNCHANGED gameVars
  /\ gpc = "content"
  /\ cpc = "missions"
  /\ k < count
  /\ uniqueIdCounter' = uniqueIdCounter + 1
  /\ LET id == generateUniqueId(<<"mission">>, now, uniqueIdCounter + 1)
     IN  /\ stations' = [stations EXCEPT ![gi][st].missions = Append(@, id)]
         /\ missions' = [missions EXCEPT ![gi] = Append(@, id)]
  /\ k' = k + 1
  /\ UNCHANGED <<gpc, gi, gj, graphVars, worldObjects, now, cpc, count, st, asteroids>>

\* the missions of station st are done: the next station of the system
NextStation ==
  /\ UNCHANGED gameVars
  /\ gpc = "content"
  /\ cpc = "missions"
  /\ k = count
  /\ st < Len(stations[gi])
  /\ BeginMissions(st + 1)
  /\ UNCHANGED <<gpc, gi, gj, graphVars, worldObjects, uniqueIdCounter, now,
                 stations, asteroids, missions>>

\* the last station of the system is done: the next system, or return systems
NextSystem ==
  /\ UNCHANGED gameVars
  /\ gpc = "content"
  /\ cpc = "missions"
  /\ k = count
  /\ st = Len(stations[gi])
  /\ IF gi < NumSystems
     THEN gi' = gi + 1 /\ gpc' = "content"
     ELSE gi' = 0 /\ gpc' = "done"
  /\ cpc' = "begin"
  /\ count' = 0
  /\ k' = 0
  /\ st' = 0
  /\ UNCHANGED <<gj, graphVars, worldObjects, uniqueIdCounter, now,
                 stations, asteroids, missions>>

\* the damaged gates the pair loop left behind: owner[n] is the system that
\* holds the n-th gate created (the outer loop runs over the systems in order)
GatesOf(owner, s) ==
  LET F[n \in 0..Len(owner)] ==
        IF n = 0 THEN <<>>
        ELSE IF owner[n] = s
             THEN Append(F[n - 1],
                    [id |-> generateUniqueId(<<"damaged", "-", "gate">>, 0, n),
                     type |-> "DamagedJumpGate",
                     status |-> "DAMAGED"])
             ELSE F[n - 1]
  IN  F[Len(owner)]

\* generateGalaxy inside the content seeding: the systems lie in a row, the
\* repair has chained them, the pair loop has created up to MaxGates damaged
\* gates, and the first SeededBefore systems have their content (one station,
\* one asteroid, no relay, one mission each)
InitContent ==
  /\ gpc = "content"
  /\ gi = SeededBefore + 1
  /\ gj = 0
  /\ position = [s \in Systems |-> [x |-> 200 * (s - 1), y |-> 0]]
  /\ connections = [s \in Systems |->
       (IF s > 1 THEN <<s - 1>> ELSE <<>>) \o (IF s < NumSystems THEN <<s + 1>> ELSE <<>>)]
  /\ \E g \in 0..MaxGates :
       \E owner \in [1..g -> Systems] :
         /\ \A m, n \in 1..g : m < n => owner[m] <= owner[n]
         /\ worldObjects = [s \in Systems |-> GatesOf(owner, s)]
         /\ plannedConnections =
              [n \in 1..g |-> [from |-> owner[n],
                               to |-> IF owner[n] < NumSystems THEN owner[n] + 1
                                      ELSE owner[n] - 1]]
         /\ uniqueIdCounter = g + 3 * SeededBefore
         /\ stations = [s \in Systems |->
              IF s <= SeededBefore
              THEN <<[id |-> StationId(s, 0, g + 3 * s - 2),
                      missions |-> <<generateUniqueId(<<"mission">>, 0, g + 3 * s)>>]>>
              ELSE <<>>]
         /\ asteroids = [s \in Systems |->
              IF s <= SeededBefore
              THEN <<generateUniqueId(SystemIdOf(s) \o <<"-", "asteroid">>, 0, g + 3 * s - 1)>>
              ELSE <<>>]
         /\ missions = [s \in Systems |->
              IF s <= SeededBefore
              THEN <<generateUniqueId(<<"mission">>, 0, g + 3 * s)>>
              ELSE <<>>]
  /\ visited = [n \in 1..NumSystems |-> n]
  /\ queue = <<>>
  /\ now = 0
  /\ cpc = "begin"
  /\ count = 0
  /\ k = 0
  /\ st = 0
  /\ GameIdle

NextContent ==
  \/ ClockTick
  \/ BeginStations
  \/ GenStation
  \/ BeginAsteroids
  \/ GenAsteroid
  \/ BrokenRelay
  \/ NoRelay
  \/ GenMission
  \/ NextStation
  \/ NextSystem

\* the content seeding of generateGalaxy
SpecContent == InitContent /\ [][NextContent]_vars

RECURSIVE Flatten(_)
Flatten(lists) ==
  IF lists = <<>> THEN <<>> ELSE Head(lists) \o Flatten(Tail(lists))

\* the ids of the stations, asteroids, world objects and missions of system s
IdsOf(s) ==
  [n \in 1..Len(stations[s]) |-> stations[s][n].id]
    \o asteroids[s]
    \o [n \in 1..Len(worldObjects[s]) |-> worldObjects[s][n].id]
    \o missions[s]

\* all the identifiers of the galaxy, system by system
AllIds == Flatten([s \in Systems |-> IdsOf(s)])

\* C2: at every point of the content seeding, and in the galaxy returned, no
\* two stations, asteroids, world objects or missions share an identifier
C2_UniqueIds == NoDuplicates(AllIds)

\* a returned galaxy with two stations in one system, a gate, a relay and
\* ids taken at two different times
C2_Witness ==
  /\ gpc = "done"
  /\ \E s \in Systems : Len(stations[s]) >= 2 /\ Len(worldObjects[s]) >= 2
  /\ now > 0
  /\ Len(AllIds) >= 4 * NumSystems

(***************************************************************************)
(* useGameStore.ts: the actions.                                           *)
(***************************************************************************)
\* a galaxy as generateGalaxy returns it: the systems in a row, chained by the
\* repair, each with one station, one asteroid and one mission
GalaxyDone ==
  /\ gpc = "done"
  /\ gi = 0
  /\ gj = 0
  /\ position = [s \in Systems |-> [x |-> 200 * (s - 1), y |-> 0]]
  /\ connections = [s \in Systems |->
       (IF s > 1 THEN <<s - 1>> ELSE <<>>) \o (IF s < NumSystems THEN <<s + 1>> ELSE <<>>)]
  /\ worldObjects = [s \in Systems |-> <<>>]
  /\ plannedConnections = <<>>
  /\ visited = [n \in 1..NumSystems |-> n]
  /\ queue = <<>>
  /\ uniqueIdCounter = 3 * NumSystems
  /\ now = 0
  /\ cpc = "begin"
  /\ count = 0
  /\ k = 0
  /\ st = 0
  /\ stations = [s \in Systems |->
       <<[id |-> StationId(s, 0, 3 * s - 2),
          missions |-> <<generateUniqueId(<<"mission">>, 0, 3 * s)>>]>>]
  /\ asteroids = [s \in Systems |->
       <<generateUniqueId(SystemIdOf(s) \o <<"-", "asteroid">>, 0, 3 * s - 1)>>]
  /\ missions = [s \in Systems |-> <<generateUniqueId(<<"mission">>, 0, 3 * s)>>]

\* `${prefix}-${Date.now()}-${++storeIdCounter}`
generateUniqueStoreId(prefix, counter) == generateUniqueId(<<prefix>>, now, counter)

\* a call of the store action op: what it records and what it leaves alone
StoreCall(op, arg) ==
  /\ calls < MaxCalls
  /\ calls' = calls + 1
  /\ last' = [op |-> op, arg |-> arg]
  /\ UNCHANGED <<gpc, gi, gj, position, plannedConnections, visited, queue,
                 worldObjects, uniqueIdCounter, now, contentVars>>
  /\ UNCHANGED <<loopVars, browserVars, ticks, syncs, thrown, syncedAt>>

\* setPlayerInput(isThrusting, targetAngle): 0.01 rad is between 5 and 6
\* tenths of a degree
SetPlayerInput(isThrusting, targetAngle) ==
  /\ StoreCall("setPlayerInput", targetAngle)
  /\ UNCHANGED <<stationVars, sharedArrays>>
  /\ IF playerInput.isThrusting # isThrusting
        \/ MathAbs(playerInput.targetAngle - targetAngle) > 5
     THEN playerInput' = [isThrusting |-> isThrusting, targetAngle |-> targetAngle]
     ELSE UNCHANGED playerInput
  /\ UNCHANGED <<player, currentSystem, discovered, credits, enemies, projectiles,
                 explosions, gameTime, storeIdCounter, preJump, connections>>

RECURSIVE WeaponBonus(_, _)
\* the forEach over state.player.modules: the sum of one stat over the
\* modules of type weapon
WeaponBonus(modules, stat) ==
  IF modules = <<>> THEN 0
  ELSE (IF ModuleType(Head(modules)) = "weapon" THEN ModuleStat(Head(modules), stat) ELSE 0)
       + WeaponBonus(Tail(modules), stat)

WeaponDamage(modules) == 20 + WeaponBonus(modules, "damage")

\* a mutant of WeaponEnergyCost: the modules are ignored
WeaponEnergyCostBase(modules) == 10

WeaponEnergyCost(modules) == 10 + WeaponBonus(modules, "energyCost")

WeaponProjectileSpeed(modules) == 300 + WeaponBonus(modules, "projectileSpeed")

\* newProjectile; the velocity is in position units per second, the life in
\* 60ths of a second
NewProjectile(ship, id) ==
  [id |-> id,
   position |-> ship.position,
   velocity |-> [x |-> Cos1000(ship.rotation) * WeaponProjectileSpeed(ship.modules) * 10,
                 y |-> Sin1000(ship.rotation) * WeaponProjectileSpeed(ship.modules) * 10],
   life |-> 60,
   damage |-> WeaponDamage(ship.modules),
   owner |-> "player"]

\* fireWeapon()
FireWeapon ==
  /\ storeIdCounter < MaxStoreIds
  /\ StoreCall("fireWeapon", 0)
  /\ UNCHANGED <<stationVars, sharedArrays>>
  /\ IF Less(player.energy, Stat(10))
     THEN UNCHANGED <<player, projectiles, storeIdCounter>>
     ELSE /\ storeIdCounter' = storeIdCounter + 1
          /\ player' = [player EXCEPT
               !.energy = Sub(@, Stat(WeaponEnergyCost(player.modules)))]
          /\ projectiles' = Append(projectiles,
               NewProjectile(player, generateUniqueStoreId("proj", storeIdCounter + 1)))
  /\ UNCHANGED <<currentSystem, discovered, credits, enemies, explosions,
                 playerInput, gameTime, preJump, connections>>

\* a mutant of CanJump: the connections of the current system are not looked at
CanJumpAnywhere(systemId) ==
  /\ player.fuel >= 10
  /\ systemId \in Systems

\* the two early returns of jumpToSystem, negated
CanJump(systemId) ==
  /\ ~(player.fuel < 10)
  /\ systemId \in Systems
  /\ Includes(connections[currentSystem], systemId)

\* the set of the entries of a list
Range(list) == { list[n] : n \in 1..Len(list) }

\* the ids of the set of entities l
IdSet(l) == { l[n].id : n \in 1..Len(l) }

\* the ids of the enemies, projectiles and explosions of the store and of the
\* game loop
EntityIds ==
  IdSet(enemies) \cup IdSet(projectiles) \cup IdSet(explosions)
    \cup IdSet(internalEnemies) \cup IdSet(internalProjectiles)
    \cup IdSet(internalExplosions)

\* jumpToSystem(systemId); alsoDiscovered are the connected systems for which
\* Math.random() < 0.3
JumpToSystem(systemId) ==
  /\ StoreCall("jumpToSystem", systemId)
  /\ UNCHANGED <<stationVars, sharedArrays>>
  /\ IF ~CanJump(systemId)
     THEN UNCHANGED <<storeVars, preJump>>
     ELSE /\ preJump' = [active |-> TRUE, ids |-> EntityIds]
          /\ \E alsoDiscovered \in SUBSET Range(connections[systemId]) :
               discovered' = [s \in Systems |->
                                discovered[s] \/ s = systemId \/ s \in alsoDiscovered]
          /\ currentSystem' = systemId
          /\ player' = [player EXCEPT !.fuel = @ - 10,
                                      !.position = Origin,
                                      !.velocity = Origin]
          /\ enemies' = <<>>
          /\ projectiles' = <<>>
          /\ explosions' = <<>>
          /\ UNCHANGED <<credits, playerInput, gameTime, storeIdCounter>>
  /\ UNCHANGED connections

\* refuelShip()
RefuelShip ==
  /\ StoreCall("refuelShip", 0)
  /\ UNCHANGED <<stationVars, sharedArrays>>
  /\ LET fuelCost == player.maxFuel - player.fuel
     IN  IF credits < fuelCost
         THEN UNCHANGED <<credits, player>>
         ELSE /\ credits' = credits - fuelCost
              /\ player' = [player EXCEPT !.fuel = player.maxFuel]
  /\ UNCHANGED <<currentSystem, discovered, enemies, projectiles, explosions,
                 playerInput, gameTime, storeIdCounter, preJump,
                 connections>>

\* repairShip(): repairCost is (maxHealth - health) * 2
RepairShip ==
  /\ StoreCall("repairShip", 0)
  /\ UNCHANGED <<stationVars, sharedArrays>>
  /\ IF credits < (player.maxHealth - player.health) * 2
     THEN UNCHANGED <<credits, player>>
     ELSE /\ credits' = credits - (player.maxHealth - player.health) * 2
          /\ player' = [player EXCEPT !.health = player.maxHealth]
  /\ UNCHANGED <<currentSystem, discovered, enemies, projectiles, explosions,
                 playerInput, gameTime, storeIdCounter, preJump,
                 connections>>

\* the enemy of spawnEnemy(position); the rotation of an enemy is kept as the
\* vector 1000 * (cos, sin); ref names the position and velocity objects of
\* the ship, which every copy of the enemy shares
NewEnemy(pos, shipId, id, ref) ==
  [id |-> id,
   ref |-> ref,
   ship |-> [id |-> shipId,
             position |-> pos,
             velocity |-> Origin,
             rotation |-> [x |-> 1000, y |-> 0],
             health |-> 60,
             maxHealth |-> 60,
             shields |-> Stat(20),
             maxShields |-> Stat(20),
             energy |-> Stat(100),
             maxEnergy |-> Stat(100)]]

\* spawnEnemy(position)
SpawnEnemy(pos) ==
  /\ storeIdCounter + 2 <= MaxStoreIds
  /\ StoreCall("spawnEnemy", 0)
  /\ UNCHANGED <<stationVars, sharedArrays>>
  /\ IF Len(enemies) >= 3
     THEN UNCHANGED <<enemies, storeIdCounter>>
     ELSE /\ storeIdCounter' = storeIdCounter + 2
          /\ enemies' = Append(enemies,
               NewEnemy(pos, generateUniqueStoreId("enemy-ship", storeIdCounter + 1),
                        generateUniqueStoreId("enemy", storeIdCounter + 2),
                        calls + 1))
  /\ UNCHANGED <<player, currentSystem, discovered, credits, projectiles,
                 explosions, playerInput, gameTime, preJump,
                 connections>>

\* the connections generateGalaxy can return for three systems that are all
\* within range of each other: the chain, the star and the triangle
Galaxies ==
  { [s \in Systems |->
       (IF s > 1 THEN <<s - 1>> ELSE <<>>) \o (IF s < NumSystems THEN <<s + 1>> ELSE <<>>)],
    [s \in Systems |-> IF s = 1 THEN [n \in 1..(NumSystems - 1) |-> n + 1] ELSE <<1>>],
    [s \in Systems |-> SelectSeq([n \in 1..NumSystems |-> n], LAMBDA n : n # s)] }

\* initializeGame(): a new galaxy and the initial state
InitializeGame ==
  /\ StoreCall("initializeGame", 0)
  /\ connections' \in Galaxies
  /\ storeIdCounter' = 0
  /\ player' = InitialPlayer
  /\ currentSystem' = 1
  /\ discovered' = [s \in Systems |-> s = 1]
  /\ credits' = StartingCredits
  /\ enemies' = <<>>
  /\ projectiles' = <<>>
  /\ explosions' = <<>>
  /\ playerInput' = [isThrusting |-> FALSE, targetAngle |-> 0]
  /\ gameTime' = 0
  /\ preJump' = [active |-> FALSE, ids |-> {}]
  /\ factions' = FACTIONS
  /\ activeMissions' = <<>>
  /\ trackedMissionId' = NoMission
  /\ rocks' = UntouchedRocks
  /\ sharedArrays' = [cargo |-> FALSE, modules |-> FALSE]
  /\ UNCHANGED <<outcome, ledger>>

\* the system ids a caller may pass: the systems and an id that names none
JumpTargets == Systems \cup {0}

\* a store in the middle of a game, the loop not started: fuel left after
\* jumps, energy left after shots, a weapon bought, the ship turned
InitStoreGame ==
  /\ GalaxyDone
  /\ \E fuel \in {0, 10, 100}, energy \in {Stat(4), Stat(10), Stat(100)} :
       \E ship \in {[rot |-> 0, mods |-> StartingModules],
                    [rot |-> 900, mods |-> <<"pulse-cannon", "shield-booster">>],
                    [rot |-> 300,
                     mods |-> <<"missile-launcher", "shield-booster", "energy-cell">>]} :
         player = [InitialPlayer EXCEPT !.fuel = fuel, !.energy = energy,
                                        !.rotation = ship.rot, !.modules = ship.mods]
  /\ currentSystem = 1
  /\ discovered = [s \in Systems |-> s = 1]
  /\ credits \in {50, StartingCredits}
  /\ enemies = <<>>
  /\ projectiles = <<>>
  /\ explosions = <<>>
  /\ playerInput = [isThrusting |-> FALSE, targetAngle |-> 0]
  /\ gameTime = 0
  /\ storeIdCounter = 0
  /\ factions = FACTIONS
  /\ activeMissions = <<>>
  /\ trackedMissionId = NoMission
  /\ rocks = UntouchedRocks
  /\ InitLoop
  /\ InitBrowser
  /\ InitHistory

NextStore ==
  \/ FireWeapon
  \/ \E systemId \in JumpTargets : JumpToSystem(systemId)
  \/ RefuelShip
  \/ InitializeGame

\* the actions of the store, called while the loop is stopped
SpecStore == InitStoreGame /\ [][NextStore]_vars

C9_Bonus(mods, stat) ==
  LET One(n) == IF n <= Len(mods)
                   /\ mods[n] \in {"basic-laser", "pulse-cannon", "missile-launcher"}
                THEN ModuleStat(mods[n], stat) ELSE 0
  IN  One(1) + One(2) + One(3)

\* C9: fireWeapon with energy >= 10 appends exactly one projectile owned by
\* the player, at the player's position, with damage 20 + the weapons' damage
\* bonuses and speed 300 + their speed bonuses along the rotation, and lowers
\* energy by 10 + their energy-cost bonuses (100 -> 90 with the starting
\* weapon); with energy < 10 it changes nothing
C9_Fire ==
  [][last'.op = "fireWeapon" /\ calls' = calls + 1 =>
       IF player.energy >= Stat(10)
       THEN /\ Len(projectiles') = Len(projectiles) + 1
            /\ SubSeq(projectiles', 1, Len(projectiles)) = projectiles
            /\ LET p == projectiles'[Len(projectiles')]
                   speed == 300 + C9_Bonus(player.modules, "projectileSpeed")
               IN  /\ p.owner = "player"
                   /\ p.position = player.position
                   /\ p.damage = 20 + C9_Bonus(player.modules, "damage")
                   /\ p.velocity = [x |-> Cos1000(player.rotation) * speed * 10,
                                    y |-> Sin1000(player.rotation) * speed * 10]
            /\ player'.energy
                 = player.energy - Stat(10 + C9_Bonus(player.modules, "energyCost"))
            /\ (player.modules = StartingModules /\ player.energy = Stat(100)
                  => player'.energy = Stat(90))
            /\ player' = [player EXCEPT !.energy = player'.energy]
       ELSE UNCHANGED storeVars]_vars

\* a missile has been fired by a ship turned by 30 degrees: 45 damage, speed
\* 250, 15 energy
C9_Witness ==
  /\ last.op = "fireWeapon"
  /\ Len(projectiles) = 1
  /\ projectiles[1].damage = 45
  /\ projectiles[1].velocity = [x |-> 864 * 250 * 10, y |-> 500 * 250 * 10]
  /\ player.energy = Stat(85)

(***************************************************************************)
(* SpaceshipPhysicsEngine.ts                                               *)
(***************************************************************************)
\* a * b, NaN when an operand is NaN
Mul(a, b) == IF IsNaN(a) \/ IsNaN(b) THEN NaN ELSE a * b

RECURSIVE SqrtBetween(_, _, _)
\* the largest r in lo..hi with r * r <= n
SqrtBetween(n, lo, hi) ==
  IF lo >= hi THEN lo
  ELSE IF ((lo + hi + 1) \div 2) * ((lo + hi + 1) \div 2) <= n
       THEN SqrtBetween(n, (lo + hi + 1) \div 2, hi)
       ELSE SqrtBetween(n, lo, ((lo + hi + 1) \div 2) - 1)

\* Math.sqrt, rounded down
MathSqrt(n) == IF IsNaN(n) THEN NaN ELSE SqrtBetween(n, 0, 46340)

\* PHYSICS_CONSTANTS: 0.01 and 0.5 in 1/10000 of a unit, 0.99 in hundredths,
\* 0.5 in tenths
THRUST_FORCE == 100

FRICTION == 99

MAX_VELOCITY == 5000

ROTATION_SPEED == 5

\* the delta of interpolateAngle after its normalisation; one turn is 3600
ShortestDelta(delta) ==
  IF delta > 1800 THEN delta - 3600
  ELSE IF delta < -1800 THEN delta + 3600
  ELSE delta

\* interpolateAngle(current, target, factor)
interpolateAngle(current, target, factor) ==
  current + RoundDiv(ShortestDelta(target - current) * factor, 10)

\* steps 2 and 3 of updateShipState for one component of the velocity:
\* thrust along the direction (1000 * cos or sin), then friction
Accelerated(v, isThrusting, direction) ==
  RoundDiv((IF isThrusting THEN v + RoundDiv(direction * THRUST_FORCE, 1000) ELSE v)
             * FRICTION, 100)

\* step 4 left out: the component as thrust and friction left it
NotClamped(v, speedSquared) == v

\* step 4 for one component: scaled down when the speed is above the maximum
ClampedBy(v, speedSquared) ==
  IF speedSquared > MAX_VELOCITY * MAX_VELOCITY
  THEN RoundDiv(v * MAX_VELOCITY, MathSqrt(speedSquared))
  ELSE v

\* step 5: the new ship state
Drifted(ship, rotation, vx, vy) ==
  [x |-> ship.x + ClampedBy(vx, vx * vx + vy * vy),
   y |-> ship.y + ClampedBy(vy, vx * vx + vy * vy),
   vx |-> ClampedBy(vx, vx * vx + vy * vy),
   vy |-> ClampedBy(vy, vx * vx + vy * vy),
   rotation |-> rotation]

\* steps 2 to 5 for the new rotation
Turned(ship, input, rotation) ==
  Drifted(ship, rotation,
          Accelerated(ship.vx, input.isThrusting, Cos1000(rotation)),
          Accelerated(ship.vy, input.isThrusting, Sin1000(rotation)))

\* updateShipState(ship, input, deltaTime); deltaTime is not used
updateShipState(ship, input) ==
  Turned(ship, input,
         interpolateAngle(ship.rotation, input.targetAngle, ROTATION_SPEED))

(***************************************************************************)
(* GameLoop.ts                                                             *)
(***************************************************************************)
\* 1000 / 10 ms, in 60ths of a second
updateInterval == 6

\* the cap 1/30 s of deltaTime, in 60ths of a second
MaxDeltaTime == 2

\* the root of the sum of two squares
Hypot(dx, dy) == IF IsNaN(dx) \/ IsNaN(dy) THEN NaN ELSE MathSqrt(dx * dx + dy * dy)

\* distance(pos1, pos2), in tenths of a unit
distance(pos1, pos2) ==
  Hypot(RoundDiv(Sub(pos1.x, pos2.x), 1000), RoundDiv(Sub(pos1.y, pos2.y), 1000))

\* one component of the velocity in updateShipPhysics, for an enemy that is
\* not a bounty target: thrust multiplier 0.08, drag multiplier 0.98
Dragged(v, thrust, deltaTime) ==
  RoundDiv(Mul(Add(v, RoundDiv(Mul(Mul(thrust, deltaTime), 8), 6000)), 98), 100)

\* position + velocity * deltaTime
Advanced(at, velocity, deltaTime) ==
  [x |-> Add(at.x, RoundDiv(Mul(velocity.x, deltaTime), 60)),
   y |-> Add(at.y, RoundDiv(Mul(velocity.y, deltaTime), 60))]

\* the ship with its new velocity, moved by it
Coasted(ship, velocity, deltaTime) ==
  [ship EXCEPT !.velocity = velocity,
               !.position = Advanced(ship.position, velocity, deltaTime)]

\* updateShipPhysics(ship, thrustVector, deltaTime)
updateShipPhysics(ship, thrustVector, deltaTime) ==
  Coasted(ship,
          [x |-> Dragged(ship.velocity.x, thrustVector.x, deltaTime),
           y |-> Dragged(ship.velocity.y, thrustVector.y, deltaTime)],
          deltaTime)

\* `${prefix}-${Date.now()}-${++gameLoopIdCounter}`
generateUniqueGameId(prefix, counter) == generateUniqueId(<<prefix>>, now, counter)

\* the internal player state with the ship state the engine returned
WithShipState(p, updatedShipState) ==
  [p EXCEPT !.position = [x |-> updatedShipState.x, y |-> updatedShipState.y],
            !.velocity = [x |-> updatedShipState.vx, y |-> updatedShipState.vy],
            !.rotation = updatedShipState.rotation]

\* updatePlayerPhysicsInternal(state, deltaTime)
updatePlayerPhysicsInternal(p, input) ==
  WithShipState(p, updateShipState([x |-> p.position.x, y |-> p.position.y,
                                    vx |-> p.velocity.x, vy |-> p.velocity.y,
                                    rotation |-> p.rotation], input))

\* value < max ? Math.min(max, value + gain) : value
Regenerated(value, max, gain) ==
  IF Less(value, max) THEN MathMin(max, Add(value, gain)) ELSE value

\* updatePlayerRegenerationInternal(deltaTime): deltaTime * 10 and
\* deltaTime * 20 are 2 and 4 twelfths for every 60th of a second
updatePlayerRegenerationInternal(p, deltaTime) ==
  [p EXCEPT !.shields = Regenerated(p.shields, p.maxShields, Mul(deltaTime, 2)),
            !.energy = Regenerated(p.energy, p.maxEnergy, Mul(deltaTime, 4))]

\* dx, dy and dist of updateEnemiesInternal, in tenths of a unit
Toward(from, to) ==
  [dx |-> RoundDiv(Sub(to.x, from.x), 1000),
   dy |-> RoundDiv(Sub(to.y, from.y), 1000),
   dist |-> distance(to, from)]

\* the enemy's ship after updateShipPhysics with the thrust (dx, dy) / dist * 60
\* and rotation = Math.atan2(dy, dx)
Chasing(ship, t, deltaTime) ==
  [updateShipPhysics(ship,
                     [x |-> RoundDiv(t.dx * 6000, t.dist) * 100,
                      y |-> RoundDiv(t.dy * 6000, t.dist) * 100],
                     deltaTime)
   EXCEPT !.rotation = [x |-> RoundDiv(t.dx * 1000, t.dist),
                        y |-> RoundDiv(t.dy * 1000, t.dist)]]

\* the projectile an enemy pushes
EnemyShot(ship, counter) ==
  [id |-> generateUniqueGameId("enemy-proj", counter + 1),
   position |-> ship.position,
   velocity |-> [x |-> ship.rotation.x * 2500, y |-> ship.rotation.y * 2500],
   life |-> 60,
   damage |-> 15,
   owner |-> "enemy"]

\* the end of the map callback: the energy of the enemy regenerates,
\* deltaTime * 15 is 3 twelfths for every 60th of a second
EnemyDone(enemy, ship, shots, deltaTime) ==
  [enemy |-> [enemy EXCEPT
                !.ship = [ship EXCEPT
                            !.energy = Regenerated(ship.energy, ship.maxEnergy,
                                                   Mul(deltaTime, 3))]],
   shots |-> shots]

\* the occasional firing of an enemy whose ship has moved
EnemyFiring(enemy, moved, close, fire, deltaTime, counter) ==
  IF close /\ Greater(moved.energy, Stat(10)) /\ fire
  THEN EnemyDone(enemy, [moved EXCEPT !.energy = Sub(@, Stat(10))],
                 <<EnemyShot(moved, counter)>>, deltaTime)
  ELSE EnemyDone(enemy, moved, <<>>, deltaTime)

\* the simple AI: 50 < dist < 800, and dist < 300 to fire
EnemyAI(enemy, t, deltaTime, fire, counter) ==
  IF Greater(t.dist, 500) /\ Less(t.dist, 8000)
  THEN EnemyFiring(enemy, Chasing(enemy.ship, t, deltaTime), Less(t.dist, 3000),
                   fire, deltaTime, counter)
  ELSE EnemyDone(enemy, enemy.ship, <<>>, deltaTime)

\* the callback of the map of updateEnemiesInternal for one enemy; fire is
\* Math.random() < 0.01, counter is gameLoopIdCounter
UpdateEnemy(enemy, p, deltaTime, fire, counter) ==
  EnemyAI(enemy, Toward(enemy.ship.position, p.position), deltaTime, fire, counter)

\* acc after the callback returned u for the enemy at index n
Collected(acc, n, u) ==
  [enemies |-> [acc.enemies EXCEPT ![n] = u.enemy],
   projectiles |-> acc.projectiles \o u.shots,
   counter |-> acc.counter + Len(u.shots)]

RECURSIVE UpdateEnemiesFrom(_, _, _, _, _)
\* the map of updateEnemiesInternal from the enemy at index n on; acc holds
\* the enemies, this.internalProjectiles and gameLoopIdCounter
UpdateEnemiesFrom(n, acc, p, deltaTime, fires) ==
  IF n > Len(acc.enemies) THEN acc
  ELSE UpdateEnemiesFrom(n + 1,
         Collected(acc, n, UpdateEnemy(acc.enemies[n], p, deltaTime, fires[n],
                                       acc.counter)),
         p, deltaTime, fires)

\* a mutant of MovedProjectile: the life is not counted down
TimelessProjectile(projectile, deltaTime) ==
  [projectile EXCEPT
     !.position = Advanced(projectile.position, projectile.velocity, deltaTime)]

\* the callback of the map of updateProjectilesInternal
MovedProjectile(projectile, deltaTime) ==
  [projectile EXCEPT
     !.position = Advanced(projectile.position, projectile.velocity, deltaTime),
     !.life = Sub(projectile.life, deltaTime)]

\* .filter(x => x.life > 0)
Alive(list) == SelectSeq(list, LAMBDA x : Greater(x.life, 0))

\* updateProjectilesInternal(deltaTime)
updateProjectilesInternal(list, deltaTime) ==
  Alive([n \in 1..Len(list) |-> MovedProjectile(list[n], deltaTime)])

\* updateExplosionsInternal(deltaTime); the scale is in 30ths
updateExplosionsInternal(list, deltaTime) ==
  Alive([n \in 1..Len(list) |->
           [list[n] EXCEPT !.life = Sub(list[n].life, deltaTime),
                           !.scale = Add(list[n].scale, deltaTime)]])

\* the explosion pushed by a hit
NewExplosion(pos, counter) ==
  [id |-> generateUniqueGameId("explosion", counter + 1),
   position |-> pos,
   life |-> 30,
   scale |-> 30]

RECURSIVE HitEnemiesFrom(_, _, _)
\* the forEach over internalEnemies for the player's projectile at index n,
\* from the enemy at index m on
HitEnemiesFrom(m, n, acc) ==
  IF m > Len(acc.enemies) THEN acc
  ELSE IF Less(distance(acc.projectiles[n].position, acc.enemies[m].ship.position), 200)
       THEN HitEnemiesFrom(m + 1, n,
              [acc EXCEPT
                 !.projectiles[n].life = 0,
                 !.enemies[m].ship.health = @ - acc.projectiles[n].damage,
                 !.explosions = Append(@, NewExplosion(acc.enemies[m].ship.position,
                                                       acc.counter)),
                 !.counter = @ + 1])
       ELSE HitEnemiesFrom(m + 1, n, acc)

RECURSIVE HitFrom(_, _)
\* the forEach over internalProjectiles of updateCollisionsInternal, from the
\* projectile at index n on
HitFrom(n, acc) ==
  IF n > Len(acc.projectiles) THEN acc
  ELSE IF acc.projectiles[n].owner = "player"
       THEN HitFrom(n + 1, HitEnemiesFrom(1, n, acc))
       ELSE IF /\ acc.projectiles[n].owner = "enemy"
               /\ Less(distance(acc.projectiles[n].position, acc.player.position), 200)
            THEN HitFrom(n + 1,
                   [acc EXCEPT
                      !.projectiles[n].life = 0,
                      !.player.health = @ - acc.projectiles[n].damage,
                      !.explosions = Append(@, NewExplosion(acc.player.position,
                                                            acc.counter)),
                      !.counter = @ + 1])
            ELSE HitFrom(n + 1, acc)

\* a mutant of RemoveDead: the two filters are left out
KeepDead(hit) == hit

\* the two filters at the end of updateCollisionsInternal
RemoveDead(hit) ==
  [hit EXCEPT !.projectiles = Alive(hit.projectiles),
              !.enemies = SelectSeq(hit.enemies, LAMBDA e : e.ship.health > 0)]

\* updateCollisionsInternal()
updateCollisionsInternal(acc) == RemoveDead(HitFrom(1, acc))

\* the loop state after updateCollisionsInternal, with the enemies that
\* updateEnemiesInternal returned
WithMoved(c, moved) ==
  [player |-> c.player, enemies |-> c.enemies, projectiles |-> c.projectiles,
   explosions |-> c.explosions, counter |-> c.counter, moved |-> moved]

\* updateProjectilesInternal, updateExplosionsInternal, updateCollisionsInternal
AfterEnemies(s, p, e, deltaTime) ==
  WithMoved(updateCollisionsInternal(
              [player |-> p,
               enemies |-> e.enemies,
               projectiles |-> updateProjectilesInternal(e.projectiles, deltaTime),
               explosions |-> updateExplosionsInternal(s.explosions, deltaTime),
               counter |-> e.counter]),
            e.enemies)

\* updateEnemiesInternal and what follows it
AfterPlayer(s, p, deltaTime, fires) ==
  AfterEnemies(s, p,
               UpdateEnemiesFrom(1, [enemies |-> s.enemies,
                                     projectiles |-> s.projectiles,
                                     counter |-> s.counter],
                                 p, deltaTime, fires),
               deltaTime)

\* updateInternalPhysics(deltaTime) on the loop state s
updateInternalPhysics(s, input, deltaTime, fires) ==
  AfterPlayer(s,
              updatePlayerRegenerationInternal(
                updatePlayerPhysicsInternal(s.player, input), deltaTime),
              deltaTime, fires)

\* the enemy e of the store after updateShipPhysics has written into the
\* position and velocity objects of the enemies in moved
Shared(e, moved) ==
  IF \E m \in 1..Len(moved) : moved[m].ref = e.ref
  THEN [e EXCEPT
          !.ship.position =
             moved[CHOOSE m \in 1..Len(moved) : moved[m].ref = e.ref].ship.position,
          !.ship.velocity =
             moved[CHOOSE m \in 1..Len(moved) : moved[m].ref = e.ref].ship.velocity]
  ELSE e

SharedWith(list, moved) == [n \in 1..Len(list) |-> Shared(list[n], moved)]

\* playerChanged of syncToReactState: 1 unit, 0.1 rad, 1 point
PlayerChanged(current, internal) ==
  \/ Greater(MathAbs(Sub(current.position.x, internal.position.x)), Pos(1))
  \/ Greater(MathAbs(Sub(current.position.y, internal.position.y)), Pos(1))
  \/ Greater(MathAbs(Sub(current.rotation, internal.rotation)), 57)
  \/ Greater(MathAbs(Sub(current.health, internal.health)), 1)
  \/ Greater(MathAbs(Sub(current.shields, internal.shields)), Stat(1))
  \/ Greater(MathAbs(Sub(current.energy, internal.energy)), Stat(1))

\* syncToReactState(): the store after useGameStore.setState(updates), for
\* the store cur and the loop state c
syncToReactState(cur, c) ==
  [player |-> IF PlayerChanged(cur.player, c.player) THEN c.player ELSE cur.player,
   enemies |-> IF Len(c.enemies) # Len(cur.enemies) THEN c.enemies ELSE cur.enemies,
   projectiles |-> IF Len(c.projectiles) # Len(cur.projectiles) \/ Len(c.projectiles) > 0
                   THEN c.projectiles ELSE cur.projectiles,
   explosions |-> IF Len(c.explosions) # Len(cur.explosions) \/ Len(c.explosions) > 0
                  THEN c.explosions ELSE cur.explosions,
   gameTime |-> cur.gameTime + 6]

\* a mutant of FrameRequested: the request is inside the try block
FrameRequestedInTry(threw) == ~threw

\* line 79 is after the try/catch: the next frame is requested whether the
\* body threw or not
FrameRequested(threw) == TRUE

\* a mutant of Cancelled: stop() cancels nothing
CancelledNothing(frames, id) == frames

\* cancelAnimationFrame(id)
Cancelled(frames, id) == frames \ {id}

\* the store as getState() returns it
CurrentState ==
  [player |-> player, enemies |-> enemies, projectiles |-> projectiles,
   explosions |-> explosions, gameTime |-> gameTime]

\* the try block of loop after updateInternalPhysics has returned c: the sync
\* when it is due; throwAt = "sync" is a subscriber of the store that throws
\* inside setState, so that lastStateUpdate is not assigned
Synced(currentTime, s, c, cur, due, throwAt) ==
  [lastTime |-> currentTime,
   lastStateUpdate |-> IF due /\ throwAt = "none" THEN currentTime
                       ELSE s.lastStateUpdate,
   internal |-> [player |-> c.player, enemies |-> c.enemies,
                 projectiles |-> c.projectiles, explosions |-> c.explosions,
                 counter |-> c.counter],
   store |-> IF due THEN syncToReactState(cur, c) ELSE cur,
   synced |-> due,
   threw |-> due /\ throwAt = "sync"]

\* the try block of loop after updateInternalPhysics has returned c
Updated(currentTime, s, c, throwAt) ==
  Synced(currentTime, s, c,
         [CurrentState EXCEPT !.enemies = SharedWith(enemies, c.moved)],
         AtLeast(Sub(currentTime, s.lastStateUpdate), updateInterval),
         throwAt)

\* deltaTime of loop: Math.min((currentTime - this.lastTime) / 1000, 1/30),
\* in 60ths of a second
ElapsedTime(currentTime, lastTimeBefore) ==
  MathMin(Sub(currentTime, lastTimeBefore), MaxDeltaTime)

\* loop(currentTime) while isRunning, on the loop state s; throwAt says which
\* call of the try block throws: updateInternalPhysics on entry ("physics"),
\* or syncToReactState ("sync")
Loop(currentTime, s, fires, throwAt) ==
  IF throwAt = "physics"
  THEN [lastTime |-> currentTime, lastStateUpdate |-> s.lastStateUpdate,
        internal |-> [player |-> s.player, enemies |-> s.enemies,
                      projectiles |-> s.projectiles, explosions |-> s.explosions,
                      counter |-> s.counter],
        store |-> CurrentState,
        synced |-> FALSE, threw |-> TRUE]
  ELSE Updated(currentTime, s,
               updateInternalPhysics(s, playerInput,
                                     ElapsedTime(currentTime, s.lastTime), fires),
               throwAt)

\* what a call of loop leaves in the variables; f is the frame that ran (0 for
\* the call from start())
LoopDone(r, f) ==
  /\ lastTime' = r.lastTime
  /\ lastStateUpdate' = r.lastStateUpdate
  /\ internalPlayerState' = r.internal.player
  /\ internalEnemies' = r.internal.enemies
  /\ internalProjectiles' = r.internal.projectiles
  /\ internalExplosions' = r.internal.explosions
  /\ gameLoopIdCounter' = r.internal.counter
  /\ player' = r.store.player
  /\ enemies' = r.store.enemies
  /\ projectiles' = r.store.projectiles
  /\ explosions' = r.store.explosions
  /\ gameTime' = r.store.gameTime
  /\ ticks' = ticks + 1
  /\ syncs' = IF r.synced THEN syncs + 1 ELSE syncs
  /\ thrown' = r.threw
  /\ IF FrameRequested(r.threw)
     THEN /\ animationFrameId' = nextFrameId
          /\ pendingFrames' = (pendingFrames \ {f}) \cup {nextFrameId}
          /\ nextFrameId' = nextFrameId + 1
     ELSE /\ pendingFrames' = pendingFrames \ {f}
          /\ UNCHANGED <<animationFrameId, nextFrameId>>

\* the values Math.random() < 0.01 can take for the enemies of the list
Fires(list) == [1..Len(list) -> BOOLEAN]

\* start(), with its call this.loop(): currentTime is undefined
Start ==
  /\ ticks < MaxTicks
  /\ last' = [op |-> "start", arg |-> 0]
  /\ IF isRunning
     THEN UNCHANGED <<storeVars, loopVars, browserVars, ticks, syncs, thrown, syncedAt>>
     ELSE /\ isRunning' = TRUE
          /\ syncedAt' = clock
          /\ \E fires \in Fires(enemies), throwAt \in {"none", "physics"} :
               LoopDone(Loop(NaN,
                             [lastTime |-> clock, lastStateUpdate |-> clock,
                              player |-> player, enemies |-> enemies,
                              projectiles |-> projectiles, explosions |-> explosions,
                              counter |-> gameLoopIdCounter],
                             fires, throwAt), 0)
          /\ UNCHANGED <<currentSystem, discovered, credits, playerInput,
                         storeIdCounter, clock>>
  /\ sharedArrays' = IF isRunning THEN sharedArrays
                     ELSE [cargo |-> TRUE, modules |-> TRUE]
  /\ UNCHANGED <<galaxyVars, calls, preJump, stationVars>>

\* stop()
Stop ==
  /\ last' = [op |-> "stop", arg |-> 0]
  /\ isRunning' = FALSE
  /\ pendingFrames' = IF animationFrameId # 0
                      THEN Cancelled(pendingFrames, animationFrameId)
                      ELSE pendingFrames
  /\ UNCHANGED <<galaxyVars, storeVars, animationFrameId, lastTime, lastStateUpdate,
                 internalPlayerState, internalEnemies, internalProjectiles,
                 internalExplosions, gameLoopIdCounter, clock, nextFrameId,
                 calls, ticks, syncs, thrown, syncedAt, preJump, stationVars,
                 sharedArrays>>

\* the times between two frames, in 60ths of a second: 60 and 10 frames a second
FrameGaps == {1, 6}

\* the frame f has run loop(currentTime) with the result r
FrameRan(f, currentTime, r, throwAt) ==
  /\ throwAt = "sync" => r.synced
  /\ LoopDone(r, f)
  /\ syncedAt' = IF r.synced THEN currentTime ELSE syncedAt
  /\ sharedArrays' = IF r.synced /\ PlayerChanged(player, r.internal.player)
                     THEN [cargo |-> TRUE, modules |-> TRUE]
                     ELSE sharedArrays
  /\ UNCHANGED <<currentSystem, discovered, credits, playerInput, storeIdCounter,
                 isRunning>>

\* the browser runs the frame f, gap after the last one: loop(currentTime)
Frame(f, gap) ==
  /\ f \in pendingFrames
  /\ ticks < MaxTicks
  /\ clock' = clock + gap
  /\ IF ~isRunning
     THEN /\ pendingFrames' = pendingFrames \ {f}
          /\ UNCHANGED <<storeVars, isRunning, animationFrameId, lastTime,
                         lastStateUpdate, internalPlayerState, internalEnemies,
                         internalProjectiles, internalExplosions, gameLoopIdCounter,
                         nextFrameId, ticks, syncs, thrown, syncedAt, sharedArrays>>
     ELSE \E fires \in Fires(internalEnemies), throwAt \in {"none", "physics", "sync"} :
            FrameRan(f, clock + gap,
                     Loop(clock + gap,
                          [lastTime |-> lastTime, lastStateUpdate |-> lastStateUpdate,
                           player |-> internalPlayerState, enemies |-> internalEnemies,
                           projectiles |-> internalProjectiles,
                           explosions |-> internalExplosions,
                           counter |-> gameLoopIdCounter],
                          fires, throwAt),
                     throwAt)
  /\ UNCHANGED <<galaxyVars, last, calls, preJump, stationVars>>

\* where the Spawn Enemy button puts an enemy: 200 to 400 right of and below
\* the player
SpawnPoints ==
  { [x |-> player.position.x + Pos(d), y |-> player.position.y + Pos(d)] : d \in {200} }

\* the game as the modules are loaded: the store created, the loop not started
InitGame == GalaxyDone /\ GameIdle

NextGame ==
  \/ Start
  \/ Stop
  \/ \E f \in pendingFrames, gap \in FrameGaps : Frame(f, gap)
  \/ \E isThrusting \in BOOLEAN, targetAngle \in {900} :
       SetPlayerInput(isThrusting, targetAngle)
  \/ FireWeapon
  \/ \E systemId \in {2, 3} : JumpToSystem(systemId)
  \/ RefuelShip
  \/ \E pos \in SpawnPoints : SpawnEnemy(pos)
  \/ InitializeGame

\* the game loop and the store actions called between its ticks
SpecGame == InitGame /\ [][NextGame]_vars

\* C3: for every sequence of start() and stop() between ticks: while stopped
\* no frame is pending, no tick body runs and the loop writes nothing to its
\* working copy or to the store; while running exactly one frame, the one
\* stop() would cancel, is pending; start() while running changes nothing
C3_StartStop ==
  /\ [](pendingFrames = IF isRunning THEN {animationFrameId} ELSE {})
  /\ [][~isRunning /\ ~isRunning' =>
          /\ ticks' = ticks
          /\ syncs' = syncs
          /\ UNCHANGED <<internalPlayerState, internalEnemies, internalProjectiles,
                         internalExplosions, lastTime, lastStateUpdate,
                         animationFrameId, pendingFrames>>
          /\ (calls' = calls => UNCHANGED storeVars)]_vars
  /\ [][isRunning /\ last'.op = "start" /\ last.op # "start" =>
          UNCHANGED <<storeVars, loopVars, browserVars, ticks, syncs>>]_vars

\* the loop ran two frames after a restart and was stopped: the frame it had
\* requested is cancelled
C3_Witness ==
  /\ ~isRunning
  /\ last.op = "stop"
  /\ ticks >= 3
  /\ nextFrameId > 2
  /\ animationFrameId = nextFrameId - 1
  /\ pendingFrames = {}

\* C4: a tick whose body throws (in the physics update or in the sync) leaves
\* the loop running and has requested the next frame
C4_ThrowKeepsLoop ==
  [][ticks' = ticks + 1 /\ thrown' =>
       /\ isRunning'
       /\ animationFrameId' = nextFrameId
       /\ pendingFrames' = {nextFrameId}]_vars

\* the sync of a frame has thrown, the loop runs and waits for the next frame
C4_Witness ==
  /\ thrown
  /\ syncs > 0
  /\ isRunning
  /\ Cardinality(pendingFrames) = 1

\* C5: a sync is performed only on a tick whose timestamp is at least 100 ms
\* after the previous sync (or after start()), and at no point of a run has
\* every tick performed a sync
C5_SyncRate ==
  /\ [][syncs' = syncs + 1 => clock' - syncedAt >= updateInterval]_vars
  /\ [](ticks > 0 => syncs < ticks)

\* C6: player.fuel of the store is changed only by jumpToSystem (minus 10),
\* refuelShip (to maxFuel) and initializeGame; no tick and no sync changes it
C6_FuelOwnedByStore ==
  [][player'.fuel # player.fuel =>
       /\ calls' = calls + 1
       /\ \/ last'.op = "jumpToSystem" /\ player'.fuel = player.fuel - 10
          \/ last'.op = "refuelShip" /\ player'.fuel = player.maxFuel
          \/ last'.op = "initializeGame"]_vars

\* C8: after a successful jump the position of the player in the store
\* continues from the origin (it is never farther from it than MaxTicks ticks
\* at the maximum velocity) and no enemy, projectile or explosion that
\* existed before the jump is in the store
C8_JumpIsHardReset ==
  preJump.active =>
    /\ MathAbs(player.position.x) <= MaxTicks * MAX_VELOCITY
    /\ MathAbs(player.position.y) <= MaxTicks * MAX_VELOCITY
    /\ IdSet(enemies) \cap preJump.ids = {}
    /\ IdSet(projectiles) \cap preJump.ids = {}
    /\ IdSet(explosions) \cap preJump.ids = {}

\* C10: a projectile that fireWeapon has just appended to the store while the
\* loop runs, with no enemy to hit, is still in the projectiles of the store
\* after the next tick, sync or not
C10_ProjectileKept ==
  [][/\ isRunning
     /\ last.op = "fireWeapon"
     /\ ticks' = ticks + 1
     /\ internalEnemies = <<>>
     /\ projectiles # <<>>
     /\ projectiles[Len(projectiles)].id = generateUniqueStoreId("proj", storeIdCounter)
     => projectiles[Len(projectiles)].id \in IdSet(projectiles')]_vars

(***************************************************************************)
(* gameUtils.ts: the cargo hold.  An entry of a cargo list is              *)
(* [id, quantity, obj]; obj names the JavaScript object, which the lists   *)
(* of the store and of the game loop can both hold.                        *)
(***************************************************************************)
\* at most MaxStationCalls calls are made at a station or an asteroid
MaxStationCalls == 4

RECURSIVE CargoTotal(_)
\* ship.cargo.reduce((sum, cargo) => sum + cargo.quantity, 0)
CargoTotal(cargo) ==
  IF cargo = <<>> THEN 0 ELSE Head(cargo).quantity + CargoTotal(Tail(cargo))

\* the index of ship.cargo.find(cargo => cargo.id === itemId), 0 for undefined
FindCargo(cargo, itemId) ==
  IF \E n \in 1..Len(cargo) : cargo[n].id = itemId
  THEN CHOOSE n \in 1..Len(cargo) :
         cargo[n].id = itemId /\ \A m \in 1..(n - 1) : cargo[m].id # itemId
  ELSE 0

\* the objects of the entries of a player's cargo list (none for null)
ObjectsOf(ship) ==
  IF ship = Null THEN {} ELSE { ship.cargo[n].obj : n \in 1..Len(ship.cargo) }

\* the objects that the store or the game loop holds
HeldObjects == ObjectsOf(player) \cup ObjectsOf(internalPlayerState)

\* an object that neither the store nor the game loop holds yet
NewObject ==
  CHOOSE n \in 1..(Cardinality(HeldObjects) + 1) :
    n \notin HeldObjects /\ \A m \in 1..(n - 1) : m \in HeldObjects

\* what a call of addCargo or removeCargo returns and leaves behind: the
\* list of the ship, the object whose quantity it assigned (0 for none) with
\* the quantity, the entry it pushed, and whether the ship got a new array
Refused(cargo) ==
  [ok |-> FALSE, cargo |-> cargo, touched |-> 0, quantity |-> 0, pushed |-> <<>>,
   filtered |-> FALSE]

\* existingItem.quantity += item.quantity
Stacked(cargo, n, quantity) ==
  [ok |-> TRUE, cargo |-> [cargo EXCEPT ![n].quantity = @ + quantity],
   touched |-> cargo[n].obj, quantity |-> cargo[n].quantity + quantity,
   pushed |-> <<>>, filtered |-> FALSE]

\* ship.cargo.push({ ...item })
Pushed(cargo, item) ==
  [ok |-> TRUE, cargo |-> Append(cargo, item), touched |-> 0, quantity |-> 0,
   pushed |-> <<item>>, filtered |-> FALSE]

\* a mutant of addCargo: the capacity is not looked at
addCargoUnchecked(ship, item) ==
  IF FindCargo(ship.cargo, item.id) > 0
  THEN Stacked(ship.cargo, FindCargo(ship.cargo, item.id), item.quantity)
  ELSE Pushed(ship.cargo, item)

\* addCargo(ship, item)
addCargo(ship, item) ==
  IF CargoTotal(ship.cargo) + item.quantity > ship.maxCargo
  THEN Refused(ship.cargo)
  ELSE IF FindCargo(ship.cargo, item.id) > 0
       THEN Stacked(ship.cargo, FindCargo(ship.cargo, item.id), item.quantity)
       ELSE Pushed(ship.cargo, item)

\* item.quantity -= quantity, and the filter when nothing is left
Lowered(cargo, n, quantity) ==
  [ok |-> TRUE,
   cargo |-> IF cargo[n].quantity - quantity <= 0
             THEN SelectSeq(cargo, LAMBDA c : c.id # cargo[n].id)
             ELSE [cargo EXCEPT ![n].quantity = @ - quantity],
   touched |-> cargo[n].obj, quantity |-> cargo[n].quantity - quantity,
   pushed |-> <<>>, filtered |-> cargo[n].quantity - quantity <= 0]

\* removeCargo(ship, itemId, quantity)
removeCargo(ship, itemId, quantity) ==
  IF FindCargo(ship.cargo, itemId) = 0
  THEN Refused(ship.cargo)
  ELSE IF ship.cargo[FindCargo(ship.cargo, itemId)].quantity < quantity
       THEN Refused(ship.cargo)
       ELSE Lowered(ship.cargo, FindCargo(ship.cargo, itemId), quantity)

\* a cargo list that another owner holds, after a call that returned res:
\* the object the call assigned to is the same object in both lists, and a
\* push is seen when both hold the same array
SeenBy(held, res, sameArray) ==
  [n \in 1..Len(held) |->
     IF held[n].obj = res.touched THEN [held[n] EXCEPT !.quantity = res.quantity]
     ELSE held[n]]
    \o (IF sameArray THEN res.pushed ELSE <<>>)

\* internalPlayerState after the store called addCargo or removeCargo on a
\* shallow copy of state.player
InternalSeeing(res) ==
  IF internalPlayerState = Null THEN Null
  ELSE [internalPlayerState EXCEPT !.cargo = SeenBy(@, res, sharedArrays.cargo)]

\* what a call returned, as it is recorded
Returned(ok) == IF ok THEN "true" ELSE "false"

\* the record of a call made at a station or at an asteroid
StationCall(op, arg, ret) ==
  /\ calls < MaxStationCalls
  /\ calls' = calls + 1
  /\ last' = [op |-> op, arg |-> arg]
  /\ outcome' = ret
  /\ UNCHANGED <<galaxyVars, browserVars, ticks, syncs, thrown, syncedAt, preJump>>
  /\ UNCHANGED <<isRunning, animationFrameId, lastTime, lastStateUpdate, internalEnemies,
                 internalProjectiles, internalExplosions, gameLoopIdCounter>>

\* what a call of addCargo or removeCargo that returned res does to the ship
\* `player` and to the other holders of its entries
CargoCalled(res, added, removed) ==
  /\ player' = [player EXCEPT !.cargo = res.cargo]
  /\ internalPlayerState' = InternalSeeing(res)
  /\ sharedArrays' = [sharedArrays EXCEPT !.cargo = @ /\ ~res.filtered]
  /\ ledger' = IF res.ok
               THEN [added |-> ledger.added + added, removed |-> ledger.removed + removed]
               ELSE ledger

\* the quantities the callers pass: the buttons of the station buy 1 or 5
\* and sell 1, 5 or all of an entry
Quantities == {1, 5, 16}

\* addCargo(player, { id, quantity }) called on its own
AddCargo(itemId, quantity) ==
  /\ StationCall("addCargo", [id |-> itemId, quantity |-> quantity],
                 Returned(addCargo(player, [id |-> itemId, quantity |-> quantity,
                                            obj |-> NewObject]).ok))
  /\ CargoCalled(addCargo(player, [id |-> itemId, quantity |-> quantity,
                                   obj |-> NewObject]), quantity, 0)
  /\ UNCHANGED <<currentSystem, discovered, credits, enemies, projectiles, explosions,
                 playerInput, gameTime, storeIdCounter, factions, activeMissions,
                 trackedMissionId, rocks>>

\* removeCargo(player, itemId, quantity) called on its own
RemoveCargo(itemId, quantity) ==
  /\ StationCall("removeCargo", [id |-> itemId, quantity |-> quantity],
                 Returned(removeCargo(player, itemId, quantity).ok))
  /\ CargoCalled(removeCargo(player, itemId, quantity), 0, quantity)
  /\ UNCHANGED <<currentSystem, discovered, credits, enemies, projectiles, explosions,
                 playerInput, gameTime, storeIdCounter, factions, activeMissions,
                 trackedMissionId, rocks>>

InitCargo == GalaxyDone /\ GameIdle

NextCargo ==
  \/ \E itemId \in CommodityIds, quantity \in Quantities : AddCargo(itemId, quantity)
  \/ \E itemId \in CommodityIds, quantity \in Quantities : RemoveCargo(itemId, quantity)

\* addCargo and removeCargo applied to the hold of the initial ship
SpecCargo == InitCargo /\ [][NextCargo]_vars

\* the quantity a cargo list holds of an item: the sum over its entries
C11_Held(cargo, itemId) == CargoTotal(SelectSeq(cargo, LAMBDA c : c.id = itemId))

\* C11: addCargo returns false and changes nothing when the total plus the
\* added quantity exceeds maxCargo, and otherwise raises the total by the
\* added quantity, stacking on the entry with the same id; removeCargo returns
\* false and changes nothing when the item is missing or holds less than
\* requested, and otherwise lowers the total by the requested quantity,
\* deleting the entry at 0; so the total is always adds minus removes and no
\* entry is negative
C11_Cargo ==
  /\ [](/\ CargoTotal(player.cargo) = ledger.added - ledger.removed
        /\ \A n \in 1..Len(player.cargo) : player.cargo[n].quantity >= 0)
  /\ [][last'.op = "addCargo" /\ calls' = calls + 1 =>
          IF CargoTotal(player.cargo) + last'.arg.quantity > player.maxCargo
          THEN outcome' = "false" /\ player' = player
          ELSE /\ outcome' = "true"
               /\ CargoTotal(player'.cargo) = CargoTotal(player.cargo) + last'.arg.quantity
               /\ C11_Held(player'.cargo, last'.arg.id)
                    = C11_Held(player.cargo, last'.arg.id) + last'.arg.quantity
               /\ Len(SelectSeq(player'.cargo, LAMBDA c : c.id = last'.arg.id)) = 1]_vars
  /\ [][last'.op = "removeCargo" /\ calls' = calls + 1 =>
          IF C11_Held(player.cargo, last'.arg.id) < last'.arg.quantity
             \/ FindCargo(player.cargo, last'.arg.id) = 0
          THEN outcome' = "false" /\ player' = player
          ELSE /\ outcome' = "true"
               /\ CargoTotal(player'.cargo) = CargoTotal(player.cargo) - last'.arg.quantity
               /\ C11_Held(player'.cargo, last'.arg.id)
                    = C11_Held(player.cargo, last'.arg.id) - last'.arg.quantity
               /\ (C11_Held(player'.cargo, last'.arg.id) = 0
                     <=> FindCargo(player'.cargo, last'.arg.id) = 0)]_vars

\* an addition was refused at a hold filled again after a removal
C11_Witness ==
  /\ last.op = "addCargo"
  /\ outcome = "false"
  /\ ledger.removed > 0
  /\ CargoTotal(player.cargo) > 15
  /\ Len(player.cargo) = 1

(***************************************************************************)
(* gameUtils.ts: the modules of a ship.                                    *)
(***************************************************************************)
\* findIndex(m => m.type === 'weapon' && [the three weapon ids].includes(m.id)),
\* counted from 1; 0 when there is none
FirstWeapon(modules) ==
  IF \E n \in 1..Len(modules) : ModuleType(modules[n]) = "weapon"
  THEN CHOOSE n \in 1..Len(modules) :
         /\ ModuleType(modules[n]) = "weapon"
         /\ \A m \in 1..(n - 1) : ModuleType(modules[m]) # "weapon"
  ELSE 0

\* applyModuleStats(ship, module)
applyModuleStats(ship, module) ==
  [ship EXCEPT
     !.maxShields = @ + Stat(ModuleStat(module, "shieldBonus")),
     !.shields = IF ModuleStat(module, "shieldBonus") # 0
                 THEN Add(@, Stat(ModuleStat(module, "shieldBonus"))) ELSE @,
     !.maxCargo = @ + ModuleStat(module, "cargoBonus"),
     !.maxEnergy = @ + Stat(ModuleStat(module, "energyBonus")),
     !.energy = IF ModuleStat(module, "energyBonus") # 0
                THEN Add(@, Stat(ModuleStat(module, "energyBonus"))) ELSE @,
     !.maxHealth = @ + ModuleStat(module, "healthBonus"),
     !.health = IF ModuleStat(module, "healthBonus") # 0
                THEN Add(@, ModuleStat(module, "healthBonus")) ELSE @]

\* removeModuleStats(ship, module)
removeModuleStats(ship, module) ==
  [ship EXCEPT
     !.maxShields = @ - Stat(ModuleStat(module, "shieldBonus")),
     !.shields = IF ModuleStat(module, "shieldBonus") # 0
                 THEN MathMin(@, ship.maxShields - Stat(ModuleStat(module, "shieldBonus")))
                 ELSE @,
     !.maxCargo = @ - ModuleStat(module, "cargoBonus"),
     !.maxEnergy = @ - Stat(ModuleStat(module, "energyBonus")),
     !.energy = IF ModuleStat(module, "energyBonus") # 0
                THEN MathMin(@, ship.maxEnergy - Stat(ModuleStat(module, "energyBonus")))
                ELSE @,
     !.maxHealth = @ - ModuleStat(module, "healthBonus"),
     !.health = IF ModuleStat(module, "healthBonus") # 0
                THEN MathMin(@, ship.maxHealth - ModuleStat(module, "healthBonus"))
                ELSE @]

\* ship.modules[n] = module, with the statistics of the old weapon taken off
\* and those of the new one put on
Replaced(ship, n, module) ==
  [ok |-> TRUE,
   ship |-> applyModuleStats(
              [removeModuleStats(ship, ship.modules[n]) EXCEPT !.modules[n] = module],
              module)]

\* ship.modules.push(module); applyModuleStats(ship, module)
Installed(ship, module) ==
  [ok |-> TRUE,
   ship |-> applyModuleStats([ship EXCEPT !.modules = Append(@, module)], module)]

\* a mutant of addModuleToShip: a weapon is installed next to the old one
addModuleBeside(ship, module) ==
  IF Len(ship.modules) >= ModuleSlots
  THEN [ok |-> FALSE, ship |-> ship]
  ELSE Installed(ship, module)

\* addModuleToShip(ship, module): what it returns and the ship it leaves
addModuleToShip(ship, module) ==
  IF ModuleType(module) = "weapon"
  THEN IF FirstWeapon(ship.modules) > 0
       THEN Replaced(ship, FirstWeapon(ship.modules), module)
       ELSE IF Len(ship.modules) < ModuleSlots
            THEN Installed(ship, module)
            ELSE [ok |-> FALSE, ship |-> ship]
  ELSE IF Len(ship.modules) >= ModuleSlots
       THEN [ok |-> FALSE, ship |-> ship]
       ELSE Installed(ship, module)

(***************************************************************************)
(* useGameStore.ts: trading at a station.                                  *)
(***************************************************************************)
\* what the trade actions leave alone
TradeUnchanged ==
  UNCHANGED <<currentSystem, discovered, enemies, projectiles, explosions, playerInput,
              gameTime, storeIdCounter, factions, activeMissions, trackedMissionId, rocks>>

\* an early return, or an if whose condition is false: no set(...)
NothingSet == UNCHANGED <<player, credits, internalPlayerState, sharedArrays, ledger>>

\* { ...COMMODITIES[itemId], quantity }
Commodity(itemId, quantity) == [id |-> itemId, quantity |-> quantity, obj |-> NewObject]

\* the branch of buyItem for a commodity, after the two early returns
BoughtCommodity(itemId, quantity, price) ==
  /\ CargoCalled(addCargo(player, Commodity(itemId, quantity)), quantity, 0)
  /\ credits' = IF addCargo(player, Commodity(itemId, quantity)).ok
                THEN Sub(credits, price * quantity) ELSE credits

\* the working copy of the loop after the modules array it shares with the
\* store has been changed in place
InternalWith(modules) ==
  IF internalPlayerState = Null \/ ~sharedArrays.modules THEN internalPlayerState
  ELSE [internalPlayerState EXCEPT !.modules = modules]

\* a mutant of BoughtModule: the price of one is taken for any quantity
BoughtModuleAtUnitPrice(itemId, quantity, price) ==
  IF addModuleToShip(player, itemId).ok
  THEN /\ player' = addModuleToShip(player, itemId).ship
       /\ credits' = Sub(credits, price)
       /\ internalPlayerState' = InternalWith(addModuleToShip(player, itemId).ship.modules)
       /\ UNCHANGED <<sharedArrays, ledger>>
  ELSE NothingSet

\* the branch of buyItem for a module
BoughtModule(itemId, quantity, price) ==
  IF addModuleToShip(player, itemId).ok
  THEN /\ player' = addModuleToShip(player, itemId).ship
       /\ credits' = Sub(credits, price * quantity)
       /\ internalPlayerState' = InternalWith(addModuleToShip(player, itemId).ship.modules)
       /\ UNCHANGED <<sharedArrays, ledger>>
  ELSE NothingSet

\* buyItem(itemId, quantity, price)
BuyItem(itemId, quantity, price) ==
  /\ StationCall("buyItem", itemId, "returned")
  /\ IF Less(credits, price * quantity) THEN NothingSet
     ELSE IF itemId \in CommodityIds
          THEN IF CargoTotal(player.cargo) + quantity > player.maxCargo
               THEN NothingSet
               ELSE BoughtCommodity(itemId, quantity, price)
          ELSE IF itemId \in ModuleIds
               THEN BoughtModule(itemId, quantity, price)
               ELSE NothingSet
  /\ TradeUnchanged

\* sellItem(itemId, quantity, price)
SellItem(itemId, quantity, price) ==
  /\ StationCall("sellItem", itemId, "returned")
  /\ CargoCalled(removeCargo(player, itemId, quantity), 0, quantity)
  /\ credits' = IF removeCargo(player, itemId, quantity).ok
                THEN Add(credits, price * quantity) ELSE credits
  /\ TradeUnchanged

(***************************************************************************)
(* useGameStore.ts: mining.                                                *)
(***************************************************************************)
\* asteroids.find(a => a.id === asteroidId), counted from 1; 0 for undefined
FindAsteroid(list, asteroidId) ==
  IF \E n \in 1..Len(list) : list[n].id = asteroidId
  THEN CHOOSE n \in 1..Len(list) :
         list[n].id = asteroidId /\ \A m \in 1..(n - 1) : list[m].id # asteroidId
  ELSE 0

\* Math.min(resource.quantity, 1)
MinedQuantity(asteroid) == MathMin(asteroid.resources[1].quantity, 1)

\* { ...resource, quantity: minedQuantity }
MinedItem(asteroid) ==
  [id |-> asteroid.resources[1].id, quantity |-> MinedQuantity(asteroid), obj |-> NewObject]

\* the asteroid after resource.quantity -= minedQuantity, the filter of the
\* resources and health -= 10
Mined(asteroid) ==
  [asteroid EXCEPT
     !.resources = IF asteroid.resources[1].quantity - MinedQuantity(asteroid) <= 0
                   THEN SelectSeq(@, LAMBDA r : r.id # asteroid.resources[1].id)
                   ELSE [@ EXCEPT ![1].quantity = @ - MinedQuantity(asteroid)],
     !.health = @ - 10]

\* the asteroids of the system after the n-th has been mined
AfterMining(list, n) ==
  IF Mined(list[n]).health <= 0
  THEN SelectSeq([list EXCEPT ![n] = Mined(list[n])], LAMBDA a : a.id # list[n].id)
  ELSE [list EXCEPT ![n] = Mined(list[n])]

\* a mutant of InReach: the asteroid may be anywhere
InReachAnywhere(asteroid) == TRUE

\* the early return of line 355, negated: dist > asteroid.size + 30
InReach(asteroid) ==
  ~Greater(distance(player.position, asteroid.position), 10 * (asteroid.size + 30))

\* mineAsteroid, after the early returns, of the n-th asteroid of the system
MinedAt(n) ==
  /\ CargoCalled(addCargo(player, MinedItem(rocks[currentSystem][n])), 1, 0)
  /\ rocks' = IF addCargo(player, MinedItem(rocks[currentSystem][n])).ok
              THEN [rocks EXCEPT ![currentSystem] = AfterMining(@, n)]
              ELSE rocks

\* mineAsteroid(asteroidId)
MineAsteroid(asteroidId) ==
  /\ StationCall("mineAsteroid", asteroidId, "returned")
  /\ IF FindAsteroid(rocks[currentSystem], asteroidId) = 0
     THEN NothingSet /\ UNCHANGED rocks
     ELSE IF rocks[currentSystem][FindAsteroid(rocks[currentSystem], asteroidId)].resources = <<>>
          THEN NothingSet /\ UNCHANGED rocks
          ELSE IF ~InReach(rocks[currentSystem][FindAsteroid(rocks[currentSystem], asteroidId)])
               THEN NothingSet /\ UNCHANGED rocks
               ELSE /\ MinedAt(FindAsteroid(rocks[currentSystem], asteroidId))
                    /\ UNCHANGED credits
  /\ UNCHANGED <<currentSystem, discovered, enemies, projectiles, explosions, playerInput,
                 gameTime, storeIdCounter, factions, activeMissions, trackedMissionId>>

(***************************************************************************)
(* useGameStore.ts: missions.                                              *)
(***************************************************************************)
\* activeMissions.find(m => m.id === missionId), counted from 1; 0 for
\* undefined
FindMission(list, missionId) ==
  IF \E n \in 1..Len(list) : list[n].id = missionId
  THEN CHOOSE n \in 1..Len(list) :
         list[n].id = missionId /\ \A m \in 1..(n - 1) : list[m].id # missionId
  ELSE 0

\* mission.rewardItems && mission.type === 'DELIVERY'
CarriesCargo(mission) == "rewardItems" \in DOMAIN mission /\ mission.type = "DELIVERY"

\* cargoItem of acceptMission
MissionCargo(mission) ==
  [id |-> mission.rewardItems.itemId, quantity |-> mission.rewardItems.quantity,
   obj |-> NewObject]

\* { ...mission, status: 'ACTIVE' }
Accepted(mission) == [mission EXCEPT !.status = "ACTIVE"]

\* the two set(...) of acceptMission
MissionAdded(mission) ==
  /\ activeMissions' = Append(activeMissions, Accepted(mission))
  /\ trackedMissionId' = mission.id

\* the branch of acceptMission for a mission with cargo
AcceptedWithCargo(mission) ==
  IF CargoTotal(player.cargo) + mission.rewardItems.quantity > player.maxCargo
  THEN UNCHANGED <<player, internalPlayerState, sharedArrays, ledger,
                   activeMissions, trackedMissionId>>
  ELSE /\ CargoCalled(addCargo(player, MissionCargo(mission)),
                      mission.rewardItems.quantity, 0)
       /\ IF addCargo(player, MissionCargo(mission)).ok
          THEN MissionAdded(mission)
          ELSE UNCHANGED <<activeMissions, trackedMissionId>>

\* a mutant of MissionLimitReached: there is no limit
MissionLimitNever(list) == FALSE

\* state.activeMissions.length >= 5
MissionLimitReached(list) == Len(list) >= 5

\* acceptMission(mission)
AcceptMission(mission) ==
  /\ StationCall("acceptMission", mission.id, "returned")
  /\ IF MissionLimitReached(activeMissions)
     THEN UNCHANGED <<player, internalPlayerState, sharedArrays, ledger,
                      activeMissions, trackedMissionId>>
     ELSE IF CarriesCargo(mission)
          THEN AcceptedWithCargo(mission)
          ELSE /\ MissionAdded(mission)
               /\ UNCHANGED <<player, internalPlayerState, sharedArrays, ledger>>
  /\ UNCHANGED <<currentSystem, discovered, credits, enemies, projectiles, explosions,
                 playerInput, gameTime, storeIdCounter, factions, rocks>>

\* Object.entries(mission.reputationChange) throws a TypeError for undefined
Entries(mission) == IF "reputationChange" \in DOMAIN mission THEN "returned" ELSE "threw"

\* how a call of completeMission or of abandonMission ends
Ending(missionId) ==
  IF FindMission(activeMissions, missionId) = 0 THEN "returned"
  ELSE Entries(activeMissions[FindMission(activeMissions, missionId)])

\* a mutant of Rewarded: every faction named is changed by its delta, and by
\* no more
RewardedTwice(fs, change) ==
  [f \in DOMAIN fs |->
     IF f \in DOMAIN change /\ change[f] # 0 THEN fs[f] + 2 * change[f] ELSE fs[f]]

\* newFactions after the forEach of completeMission
Rewarded(fs, change) ==
  [f \in DOMAIN fs |->
     IF f \in DOMAIN change /\ change[f] # 0 THEN fs[f] + change[f] ELSE fs[f]]

\* a mutant of Penalised: the penalty is the delta
PenalisedByDelta(fs, change) ==
  [f \in DOMAIN fs |->
     IF f \in DOMAIN change /\ change[f] > 0 THEN fs[f] - change[f] ELSE fs[f]]

\* newFactions after the forEach of abandonMission
Penalised(fs, change) ==
  [f \in DOMAIN fs |->
     IF f \in DOMAIN change /\ change[f] # 0 /\ change[f] > 0 THEN fs[f] - 5 ELSE fs[f]]

\* state.credits + mission.rewardCredits
Paid(mission) ==
  Add(credits, IF "rewardCredits" \in DOMAIN mission THEN mission.rewardCredits ELSE NaN)

\* the last two fields of the set(...) of completeMission and abandonMission
MissionDropped(missionId) ==
  /\ activeMissions' = SelectSeq(activeMissions, LAMBDA m : m.id # missionId)
  /\ trackedMissionId' = IF trackedMissionId = missionId THEN NoMission
                         ELSE trackedMissionId

\* the set(...) of completeMission
Completed(mission) ==
  /\ credits' = Paid(mission)
  /\ factions' = Rewarded(factions, mission.reputationChange)
  /\ MissionDropped(mission.id)
  /\ UNCHANGED <<player, internalPlayerState, sharedArrays, ledger>>

\* completeMission(missionId)
CompleteMission(missionId) ==
  /\ StationCall("completeMission", missionId, Ending(missionId))
  /\ IF FindMission(activeMissions, missionId) = 0 \/ Ending(missionId) = "threw"
     THEN NothingSet /\ UNCHANGED <<factions, activeMissions, trackedMissionId>>
     ELSE Completed(activeMissions[FindMission(activeMissions, missionId)])
  /\ UNCHANGED <<currentSystem, discovered, enemies, projectiles, explosions,
                 playerInput, gameTime, storeIdCounter, rocks>>

\* the set(...) of abandonMission, after the removeCargo whose result is not
\* looked at
Abandoned(mission) ==
  /\ factions' = Penalised(factions, mission.reputationChange)
  /\ MissionDropped(mission.id)
  /\ IF mission.type = "DELIVERY" /\ "rewardItems" \in DOMAIN mission
     THEN CargoCalled(removeCargo(player, mission.rewardItems.itemId,
                                  mission.rewardItems.quantity),
                      0, mission.rewardItems.quantity)
     ELSE UNCHANGED <<player, internalPlayerState, sharedArrays, ledger>>
  /\ UNCHANGED credits

\* abandonMission(missionId)
AbandonMission(missionId) ==
  /\ StationCall("abandonMission", missionId, Ending(missionId))
  /\ IF FindMission(activeMissions, missionId) = 0 \/ Ending(missionId) = "threw"
     THEN NothingSet /\ UNCHANGED <<factions, activeMissions, trackedMissionId>>
     ELSE Abandoned(activeMissions[FindMission(activeMissions, missionId)])
  /\ UNCHANGED <<currentSystem, discovered, enemies, projectiles, explosions,
                 playerInput, gameTime, storeIdCounter, rocks>>

(***************************************************************************)
(* The games that the specifications below start from.                     *)
(***************************************************************************)
\* the store of a game in progress: the ship p, c credits, the accepted
\* missions ms and the asteroids r; the rest as created
GameLoaded(p, c, ms, r) ==
  /\ player = p
  /\ credits = c
  /\ activeMissions = ms
  /\ trackedMissionId = IF ms = <<>> THEN NoMission ELSE ms[Len(ms)].id
  /\ rocks = r
  /\ currentSystem = 1
  /\ discovered = [s \in Systems |-> s = 1]
  /\ enemies = <<>>
  /\ projectiles = <<>>
  /\ explosions = <<>>
  /\ playerInput = [isThrusting |-> FALSE, targetAngle |-> 0]
  /\ gameTime = 0
  /\ storeIdCounter = 0
  /\ factions = FACTIONS

\* a game in progress with the loop not started: the ship p, c credits, the
\* accepted missions ms and the asteroids r; the rest as created
GameInProgress(p, c, ms, r) ==
  /\ GameLoaded(p, c, ms, r)
  /\ InitLoop /\ InitBrowser /\ InitHistory

\* the initial ship with one stack of a commodity bought
Laden(itemId, quantity) ==
  [InitialPlayer EXCEPT !.cargo = <<[id |-> itemId, quantity |-> quantity, obj |-> 1]>>]

(***************************************************************************)
(* Trading while the game loop runs.                                       *)
(***************************************************************************)
\* credits after some trading
TradingCredits == 5000

\* a mission of the Mission type (types/game.ts) that is not a delivery: the
\* bounty of MissionManager
Bounty ==
  [id |-> <<"bounty", "1">>, type |-> "BOUNTY", status |-> "AVAILABLE",
   rewardCredits |-> 2000,
   reputationChange |-> [f \in {"united-colonies", "void-pirates"} |->
                           IF f = "united-colonies" THEN 15 ELSE -25]]

\* a mission of the Mission type that is a delivery and puts two units of
\* cargo in the hold
Delivery ==
  [id |-> <<"delivery", "1">>, type |-> "DELIVERY", status |-> "AVAILABLE",
   rewardCredits |-> 500,
   rewardItems |-> [itemId |-> "delivery-package", quantity |-> 2],
   reputationChange |-> [f \in {"independent", "deep-space-collective", "void-pirates"} |->
                           CASE f = "independent" -> 10
                             [] f = "deep-space-collective" -> 0
                             [] OTHER -> -5]]

\* the first mission that generateGalaxy has put on the station of the first
\* system, as generateMission builds it: no rewardCredits, no rewardItems, no
\* reputationChange
StationMission == [id |-> missions[1][1], type |-> "delivery", status |-> "available"]

InitDock ==
  /\ GalaxyDone
  /\ \E p \in {InitialPlayer, Laden("food", 16)} :
       GameInProgress(p, TradingCredits, <<>>, UntouchedRocks)

NextDock ==
  \/ Start
  \/ \E f \in pendingFrames : Frame(f, 6)
  \/ FireWeapon
  \/ \E itemId \in {"food"}, quantity \in {5} : BuyItem(itemId, quantity, 50)
  \/ BuyItem("cargo-hold", 1, ModulePrice("cargo-hold"))
  \/ \E quantity \in {1, 5} : SellItem("food", quantity, 50)
  \/ \E n \in 1..Len(rocks[currentSystem]) : MineAsteroid(rocks[currentSystem][n].id)
  \/ AcceptMission(Delivery)
  \/ AbandonMission(Delivery.id)

\* the store actions of a station and of mining, called between the ticks of
\* the game loop
SpecDock == InitDock /\ [][NextDock]_vars

\* C12: in every state that store actions (buyItem, sellItem, mineAsteroid,
\* acceptMission, abandonMission, the purchase of a module) interleaved with
\* ticks and syncs of the loop can reach, the quantities of the player's cargo
\* add up to at most the player's maxCargo.
C12_CargoWithinCapacity == CargoTotal(player.cargo) <= player.maxCargo

(***************************************************************************)
(* The mission log.                                                        *)
(***************************************************************************)
\* four bounties accepted earlier
FourAccepted ==
  [n \in 1..4 |-> Accepted([Bounty EXCEPT !.id = <<"bounty", <<"2", "3", "4", "5">>[n]>>])]

\* the missions that are offered
Offers == {Bounty, Delivery, StationMission}

\* the ids that the mission log is asked about: those of the offers, one of
\* the bounties accepted earlier and one that no mission has
AskedIds == { m.id : m \in Offers } \cup {<<"bounty", "2">>, <<"no", "mission">>}

InitMissions ==
  /\ GalaxyDone
  /\ \E p \in {InitialPlayer, Laden("food", 19)}, ms \in {<<>>, FourAccepted} :
       GameInProgress(p, StartingCredits, ms, UntouchedRocks)

NextMissions ==
  \/ \E mission \in Offers : AcceptMission(mission)
  \/ \E missionId \in AskedIds : CompleteMission(missionId)
  \/ \E missionId \in AskedIds : AbandonMission(missionId)
  \/ \E quantity \in {1, 2} : SellItem(Delivery.rewardItems.itemId, quantity, 0)

\* missions accepted, completed and abandoned, and mission cargo sold
SpecMissions == InitMissions /\ [][NextMissions]_vars

\* C13: after any sequence of acceptMission, completeMission and
\* abandonMission the list of active missions has at most 5 entries, and
\* acceptMission called with 5 active missions leaves the list, the cargo and
\* the tracked mission unchanged.
C13_MissionLimit ==
  /\ [](Len(activeMissions) <= 5)
  /\ [][last'.op = "acceptMission" /\ calls' = calls + 1 /\ Len(activeMissions) = 5
        => UNCHANGED <<activeMissions, player, trackedMissionId>>]_vars

\* the sixth mission has been refused
C13_Witness ==
  /\ last.op = "acceptMission"
  /\ last.arg = Delivery.id
  /\ Len(activeMissions) = 5
  /\ FindMission(activeMissions, Delivery.id) = 0

\* the mission that a call of completeMission or abandonMission finds
C14_Found(missionId) == activeMissions[FindMission(activeMissions, missionId)]

\* a mission with the fields that the Mission type declares
C14_Typed(mission) == {"rewardCredits", "reputationChange"} \subseteq DOMAIN mission

\* nothing of the game has changed
C14_NothingChanged ==
  UNCHANGED <<player, credits, factions, activeMissions, trackedMissionId, rocks,
              currentSystem, discovered, galaxyVars>>

\* what completeMission has done with the mission it found
C14_CompletedAs(mission) ==
  /\ credits' = credits + mission.rewardCredits
  /\ \A f \in DOMAIN factions :
       factions'[f] = factions[f] + (IF f \in DOMAIN mission.reputationChange
                                     THEN mission.reputationChange[f] ELSE 0)
  /\ FindMission(activeMissions', mission.id) = 0
  /\ activeMissions' = SelectSeq(activeMissions, LAMBDA m : m.id # mission.id)
  /\ UNCHANGED <<player, rocks, currentSystem, discovered, galaxyVars>>

\* C14: completeMission(id) of an active mission adds its rewardCredits to the
\* credits, changes the reputation of every faction named in reputationChange
\* by its delta and removes the mission from the active list, leaving the
\* other missions, the player and the galaxy unchanged; for an id that is not
\* active it changes nothing.  The missions are those that carry the fields
\* rewardCredits and reputationChange of the Mission type.
C14_CompleteMission ==
  [][last'.op = "completeMission" /\ calls' = calls + 1
     => IF FindMission(activeMissions, last'.arg) = 0
        THEN C14_NothingChanged
        ELSE C14_Typed(C14_Found(last'.arg)) => C14_CompletedAs(C14_Found(last'.arg))]_vars

\* the delivery has been completed next to the four bounties: paid, a zero
\* delta and a negative delta applied
C14_Witness ==
  /\ last.op = "completeMission"
  /\ last.arg = Delivery.id
  /\ credits = StartingCredits + Delivery.rewardCredits
  /\ factions["independent"] = FACTIONS["independent"] + 10
  /\ factions["void-pirates"] = FACTIONS["void-pirates"] - 5
  /\ Len(activeMissions) = 4
  /\ outcome = "returned"

\* what abandonMission has done with the mission it found
C15_AbandonedAs(mission) ==
  /\ credits' = credits
  /\ \A f \in DOMAIN factions :
       factions'[f] = IF f \in DOMAIN mission.reputationChange
                         /\ mission.reputationChange[f] > 0
                      THEN factions[f] - 5 ELSE factions[f]
  /\ FindMission(activeMissions', mission.id) = 0
  /\ activeMissions' = SelectSeq(activeMissions, LAMBDA m : m.id # mission.id)

C16_MissionCargoStripped ==
  [][/\ last'.op = "abandonMission" /\ calls' = calls + 1
     /\ FindMission(activeMissions, last'.arg) > 0
     /\ CarriesCargo(C14_Found(last'.arg))
     /\ ledger.added = C14_Found(last'.arg).rewardItems.quantity
     => FindCargo(player'.cargo, C14_Found(last'.arg).rewardItems.itemId) = 0]_vars

\* C17: completeMission and abandonMission of a mission that generateGalaxy
\* has put on a station and that has been accepted return normally, and the
\* credits stay a number.
C17_NoException ==
  last.op \in {"completeMission", "abandonMission"} /\ last.arg = StationMission.id
    => outcome = "returned" /\ ~IsNaN(credits)

(***************************************************************************)
(* The shipyard.                                                           *)
(***************************************************************************)
\* credits after a lot of trading
ShopCredits == 20000

InitShop ==
  /\ GalaxyDone
  /\ \E c \in {StartingCredits, ShopCredits} :
       GameInProgress(InitialPlayer, c, <<>>, UntouchedRocks)

\* the Buy button of a module: onBuyItem(module.id, 1, module.price)
NextShop == \E itemId \in ModuleIds : BuyItem(itemId, 1, ModulePrice(itemId))

\* modules bought for the initial ship
SpecShop == InitShop /\ [][NextShop]_vars

\* the places of the modules of type weapon
C18_Weapons(modules) == { n \in 1..Len(modules) : ModuleType(modules[n]) = "weapon" }

\* the call has bought a weapon
C18_WeaponBought ==
  /\ last'.op = "buyItem" /\ calls' = calls + 1
  /\ ModuleType(last'.arg) = "weapon"
  /\ credits >= ModulePrice(last'.arg)

\* C18: after any sequence of module purchases from the initial ship the
\* module list has exactly one module of type weapon, the weapon bought last;
\* buying a weapon puts it in the slot of the old one and does not change the
\* number of modules, even with all slots full, and no other purchase touches
\* the weapon.
C18_OneWeapon ==
  /\ [](Cardinality(C18_Weapons(player.modules)) = 1)
  /\ [][C18_WeaponBought
        => player'.modules =
             [player.modules EXCEPT ![FirstWeapon(player.modules)] = last'.arg]]_vars
  /\ [][~C18_WeaponBought
        => /\ FirstWeapon(player'.modules) = FirstWeapon(player.modules)
           /\ player'.modules[FirstWeapon(player.modules)]
                = player.modules[FirstWeapon(player.modules)]]_vars

\* two modules have filled the slots and then the missile launcher was bought
C18_Witness ==
  /\ calls = 3
  /\ last.op = "buyItem"
  /\ last.arg = "missile-launcher"
  /\ Len(player.modules) = ModuleSlots
  /\ player.modules[1] = "missile-launcher"
  /\ C18_Weapons(player.modules) = {1}

(***************************************************************************)
(* The asteroid field.                                                     *)
(***************************************************************************)
\* where the asteroid of the first system is, seen from the player at
\* (500, 100): 20 away, 55 away (33 and 44: the reach of an asteroid of size
\* 25) and a little more than 55 away
RockPlaces ==
  {[x |-> Pos(520), y |-> Pos(100)], [x |-> Pos(533), y |-> Pos(144)],
   [x |-> Pos(533), y |-> Pos(145)]}

\* the asteroid of the first system: of size 25 with 5 units, untouched or
\* mined four times (1 unit and 10 health left); of size 40 with 5 units,
\* mined four times (1 unit and 40 health left); of size 15 with 5 units,
\* mined once; of size 25 with no resources
RockKinds(id, at) ==
  {Asteroid(id, at, 25, 5, 0), Asteroid(id, at, 25, 5, 4), Asteroid(id, at, 40, 5, 4),
   Asteroid(id, at, 15, 5, 1), Asteroid(id, at, 25, 0, 0)}

InitMining ==
  /\ GalaxyDone
  /\ \E p \in {InitialPlayer, Laden("iron", 3), Laden("food", 19), Laden("food", 20)},
        at \in RockPlaces :
       \E rock \in RockKinds(asteroids[1][1], at) :
         GameInProgress(p, StartingCredits, <<>>, [UntouchedRocks EXCEPT ![1] = <<rock>>])

\* the asteroid of the current system, one of another system, and an id that
\* no asteroid has
NextMining ==
  \E asteroidId \in {asteroids[1][1], asteroids[2][1], <<"no", "asteroid">>} :
    MineAsteroid(asteroidId)

\* asteroids mined from a ship that does not move
SpecMining == InitMining /\ [][NextMining]_vars

\* the asteroid with this id in the current system, when there is one
C19_Rock(id) == rocks[currentSystem][FindAsteroid(rocks[currentSystem], id)]

\* the asteroid is known, has resources, is within size + 30 of the player and
\* the hold has room for one unit
C19_Minable(id) ==
  /\ FindAsteroid(rocks[currentSystem], id) > 0
  /\ C19_Rock(id).resources # <<>>
  /\ distance(player.position, C19_Rock(id).position) <= 10 * (C19_Rock(id).size + 30)
  /\ CargoTotal(player.cargo) < player.maxCargo

\* what is left of the asteroid a, mined once
C19_Left(a) ==
  [a EXCEPT !.health = @ - 10,
            !.resources = IF a.resources[1].quantity = 1 THEN Tail(@)
                          ELSE [@ EXCEPT ![1].quantity = @ - 1]]

\* one unit of the first resource of the asteroid a has gone from it to the
\* hold, and the asteroid is gone exactly when no health is left
C19_MinedAs(a) ==
  /\ CargoTotal(player'.cargo) = CargoTotal(player.cargo) + 1
  /\ C11_Held(player'.cargo, a.resources[1].id)
       = C11_Held(player.cargo, a.resources[1].id) + 1
  /\ IF a.health - 10 <= 0
     THEN rocks'[currentSystem] = SelectSeq(rocks[currentSystem], LAMBDA r : r.id # a.id)
     ELSE rocks'[currentSystem] =
            [rocks[currentSystem] EXCEPT
               ![FindAsteroid(rocks[currentSystem], a.id)] = C19_Left(a)]

\* C19: mineAsteroid(id) of an asteroid of the current system that is within
\* size + 30 of the player and has a stack of resources, with room in the
\* hold, adds 1 unit of the first resource to the cargo, lowers the stack by 1
\* (removing it at 0), lowers the health by 10 and removes the asteroid
\* exactly when its health is then <= 0; when the asteroid is unknown, out of
\* range or without resources, or the hold is full, the cargo and the
\* asteroids are unchanged.
C19_MineAsteroid ==
  [][last'.op = "mineAsteroid" /\ calls' = calls + 1
     => IF C19_Minable(last'.arg)
        THEN C19_MinedAs(C19_Rock(last'.arg))
        ELSE UNCHANGED <<player, rocks>>]_vars

\* the last unit of an asteroid with 10 health has been mined: the asteroid is
\* gone and the iron is on the stack of the hold
C19_Witness ==
  /\ last.op = "mineAsteroid"
  /\ last.arg = asteroids[1][1]
  /\ calls = 1
  /\ rocks[1] = <<>>
  /\ player.cargo = <<[id |-> "iron", quantity |-> 4, obj |-> 1]>>

(***************************************************************************)
(* GameLoop.ts: addProjectile and addEnemy.                                *)
(***************************************************************************)
\* at most MaxShots projectiles are in flight
MaxShots == 2

\* what addProjectile and addEnemy leave alone
LoopCall(op) ==
  /\ last' = [op |-> op, arg |-> 0]
  /\ UNCHANGED <<galaxyVars, storeVars, browserVars, stationVars, sharedArrays>>
  /\ UNCHANGED <<isRunning, animationFrameId, lastTime, lastStateUpdate,
                 internalPlayerState, internalExplosions>>
  /\ UNCHANGED <<calls, ticks, syncs, thrown, syncedAt, preJump>>

\* addProjectile(projectile) for a projectile that has no id
AddProjectile(projectile) ==
  /\ Len(internalProjectiles) < MaxShots
  /\ LoopCall("addProjectile")
  /\ internalProjectiles' =
       Append(internalProjectiles,
              [id |-> generateUniqueGameId("proj", gameLoopIdCounter + 1),
               position |-> projectile.position, velocity |-> projectile.velocity,
               life |-> projectile.life, damage |-> projectile.damage,
               owner |-> projectile.owner])
  /\ gameLoopIdCounter' = gameLoopIdCounter + 1
  /\ UNCHANGED internalEnemies

\* addEnemy(enemy) for an enemy whose ids are not set
AddEnemy(pos) ==
  /\ internalEnemies = <<>>
  /\ LoopCall("addEnemy")
  /\ internalEnemies' =
       Append(internalEnemies,
              NewEnemy(pos, generateUniqueGameId("enemy-ship", gameLoopIdCounter + 2),
                       generateUniqueGameId("enemy", gameLoopIdCounter + 1), 0))
  /\ gameLoopIdCounter' = gameLoopIdCounter + 2
  /\ UNCHANGED internalProjectiles

\* where the model puts an enemy: 300 right of the player's start
EnemyPlace == [x |-> Pos(800), y |-> Pos(100)]

\* a shot as an enemy fires it (15 damage, one second to live) that has
\* reached the player, and a shot of the basic laser that has reached the
\* place of the enemy
Shots ==
  {[position |-> InitialPlayer.position, velocity |-> Origin, life |-> 60,
    damage |-> 15, owner |-> "enemy"],
   [position |-> EnemyPlace, velocity |-> Origin, life |-> 60,
    damage |-> WeaponDamage(StartingModules), owner |-> "player"]}

\* the initial ship, unhurt or hit five times by shots of 15 damage
InitCombat ==
  /\ GalaxyDone
  /\ \E hits \in {0, 5} :
       GameInProgress([InitialPlayer EXCEPT !.health = @ - 15 * hits],
                      StartingCredits, <<>>, UntouchedRocks)

NextCombat ==
  \/ Start
  \/ \E f \in pendingFrames : Frame(f, 1)
  \/ \E projectile \in Shots : AddProjectile(projectile)
  \/ AddEnemy(EnemyPlace)

\* the game loop with enemies and projectiles handed to it
SpecCombat == InitCombat /\ [][NextCombat]_vars

\* 0 <= health <= maxHealth
C20_Sound(ship) == 0 <= ship.health /\ ship.health <= ship.maxHealth

\* C20: in every state of the working copy of the loop and of the store that
\* ticks, projectile hits, addEnemy and addProjectile can reach, the player
\* and every enemy have 0 <= health <= maxHealth.
C20_HealthInRange ==
  /\ C20_Sound(player)
  /\ internalPlayerState # Null => C20_Sound(internalPlayerState)
  /\ \A n \in 1..Len(enemies) : C20_Sound(enemies[n].ship)
  /\ \A n \in 1..Len(internalEnemies) : C20_Sound(internalEnemies[n].ship)

\* the health that the hits of one tick must leave to the ship `after`, which
\* had the shields and the health of `before`
C21_Absorbed(before, after) ==
  AtLeast(before.shields, Stat(15 * MaxShots)) /\ AtLeast(before.shields, Stat(20 * MaxShots))
    => after.health = before.health

\* C21: a projectile that hits a ship in the collision pass of the game loop
\* takes its damage from the shields first, and only what exceeds the shields
\* from the health: a ship whose shields are at least the damage of the hits
\* of a tick keeps its health.
C21_ShieldsAbsorb ==
  [][/\ internalPlayerState # Null /\ internalPlayerState' # Null
        => C21_Absorbed(internalPlayerState, internalPlayerState')
     /\ \A n \in 1..Len(internalEnemies), m \in 1..Len(internalEnemies') :
          internalEnemies[n].id = internalEnemies'[m].id
            => C21_Absorbed(internalEnemies[n].ship, internalEnemies'[m].ship)]_vars

(***************************************************************************)
(* SpaceshipPhysicsEngine.ts: MissionManager.updateMissionProgress.        *)
(***************************************************************************)
\* the damaged jump gate that the pair loop of generateGalaxy has put in the
\* first system, 0.8 of the way to the second
Gate ==
  [id |-> generateUniqueId(<<"damaged", "-", "gate">>, 0, 1),
   type |-> "DamagedJumpGate",
   status |-> "DAMAGED",
   position |-> [x |-> Pos(160), y |-> Pos(0)],
   requiredItems |-> <<[itemId |-> "iron", required |-> 5, supplied |-> 0],
                       [itemId |-> "crystals", required |-> 2, supplied |-> 0]>>]

\* a galaxy as generateGalaxy returns it when the pair loop has made one
\* damaged gate: as GalaxyDone, with the gate in the first system
GalaxyWithGate ==
  /\ gpc = "done"
  /\ gi = 0
  /\ gj = 0
  /\ position = [s \in Systems |-> [x |-> 200 * (s - 1), y |-> 0]]
  /\ connections = [s \in Systems |->
       (IF s > 1 THEN <<s - 1>> ELSE <<>>) \o (IF s < NumSystems THEN <<s + 1>> ELSE <<>>)]
  /\ worldObjects = [s \in Systems |-> IF s = 1 THEN <<Gate>> ELSE <<>>]
  /\ plannedConnections = <<[from |-> 1, to |-> 2]>>
  /\ visited = [n \in 1..NumSystems |-> n]
  /\ queue = <<>>
  /\ uniqueIdCounter = 1 + 3 * NumSystems
  /\ now = 0
  /\ cpc = "begin"
  /\ count = 0
  /\ k = 0
  /\ st = 0
  /\ stations = [s \in Systems |->
       <<[id |-> StationId(s, 0, 3 * s - 1),
          missions |-> <<generateUniqueId(<<"mission">>, 0, 3 * s + 1)>>]>>]
  /\ asteroids = [s \in Systems |->
       <<generateUniqueId(SystemIdOf(s) \o <<"-", "asteroid">>, 0, 3 * s)>>]
  /\ missions = [s \in Systems |-> <<generateUniqueId(<<"mission">>, 0, 3 * s + 1)>>]

\* an objective as the generators of MissionManager write it
Objective(id, type, targetId, targetCount, isHidden) ==
  [id |-> id, type |-> type, targetId |-> targetId, targetCount |-> targetCount,
   currentProgress |-> 0, isComplete |-> FALSE, isHidden |-> isHidden]

\* an accepted mission with these objectives
ActiveMission(id, type, objectives) ==
  [id |-> <<id, "1">>, type |-> type, status |-> "ACTIVE",
   objectives |-> objectives, currentObjectiveIndex |-> 0,
   rewardCredits |-> 2000,
   reputationChange |-> [f \in {"united-colonies"} |-> 15]]

\* generateBountyMission, for a target in the second system
BountyMission ==
  ActiveMission("bounty", "BOUNTY",
    <<Objective("travel-to-system", "TRAVEL", 2, 1, FALSE),
      Objective("eliminate-target", "KILL", <<"bounty", "target">>, 1, TRUE)>>)

\* the bounty after the player has reached the system and the kill has been
\* counted
BountyHunted ==
  [BountyMission EXCEPT !.currentObjectiveIndex = 1,
                        !.objectives[1].isComplete = TRUE,
                        !.objectives[1].currentProgress = 1,
                        !.objectives[2].isHidden = FALSE,
                        !.objectives[2].currentProgress = 1]

\* generateRepairMission for the gate
RepairMission ==
  ActiveMission("repair", "REPAIR",
    <<Objective("gather-iron-0", "GATHER", "iron", 5, FALSE),
      Objective("gather-crystals-1", "GATHER", "crystals", 2, FALSE),
      Objective("repair-interaction", "INTERACT", Gate.id, 1, FALSE)>>)

\* generateSmugglingMission from the station of the first system to the
\* station of the second
SmugglingMission ==
  ActiveMission("smuggling", "SMUGGLING",
    <<Objective("pickup-contraband", "INTERACT", stations[1][1].id, 1, FALSE),
      Objective("deliver-contraband", "INTERACT", stations[2][1].id, 1, FALSE)>>)

\* generateEspionageMission for the station of the first system
EspionageMission ==
  ActiveMission("espionage", "ESPIONAGE",
    <<Objective("travel-to-target", "TRAVEL", 1, 1, FALSE),
      Objective("scan-station", "SCAN", stations[1][1].id, 30, FALSE)>>)

\* itemInCargo ? itemInCargo.quantity : 0
QuantityHeld(itemId) ==
  IF FindCargo(player.cargo, itemId) = 0 THEN 0
  ELSE player.cargo[FindCargo(player.cargo, itemId)].quantity

\* worldObjects.find(obj => obj.id === targetId), counted from 1; 0 for
\* undefined
FindObject(list, targetId) ==
  IF \E n \in 1..Len(list) : list[n].id = targetId
  THEN CHOOSE n \in 1..Len(list) :
         list[n].id = targetId /\ \A m \in 1..(n - 1) : list[m].id # targetId
  ELSE 0

\* a mutant of hasAllMaterials: the cargo is not looked at
hasAnyMaterials(object) == TRUE

\* hasAllMaterials for the world object
hasAllMaterials(object) ==
  \A n \in 1..Len(object.requiredItems) :
    /\ FindCargo(player.cargo, object.requiredItems[n].itemId) > 0
    /\ QuantityHeld(object.requiredItems[n].itemId) >= object.requiredItems[n].required

\* the three nested ifs of the INTERACT case for the object that find returned
Repairable(object) ==
  /\ object.status = "DAMAGED"
  /\ AtMost(distance(player.position, object.position), 500)
  /\ hasAllMaterials(object)

\* the INTERACT case
CanInteract(targetId) ==
  /\ FindObject(worldObjects[currentSystem], targetId) > 0
  /\ Repairable(worldObjects[currentSystem][FindObject(worldObjects[currentSystem], targetId)])

\* objectiveCompleted after the switch
objectiveCompleted(objective) ==
  CASE objective.type = "TRAVEL" -> currentSystem = objective.targetId
    [] objective.type = "GATHER" -> QuantityHeld(objective.targetId) >= objective.targetCount
    [] objective.type = "KILL" -> objective.currentProgress >= objective.targetCount
    [] objective.type = "INTERACT" -> CanInteract(objective.targetId)
    [] OTHER -> FALSE

\* currentObjective.currentProgress after the switch
Progress(objective) ==
  CASE objective.type = "GATHER" -> QuantityHeld(objective.targetId)
    [] objective.type \in {"TRAVEL", "INTERACT"} /\ objectiveCompleted(objective) -> 1
    [] OTHER -> objective.currentProgress

\* the current objective after the switch and the if that follows it
Evaluated(objective) ==
  [objective EXCEPT !.currentProgress = Progress(objective),
                    !.isComplete = objectiveCompleted(objective)]

\* a mutant of Advanced1: the mission moves on from its last objective, too
AdvancedPastEnd(mission, i) ==
  [mission EXCEPT !.objectives[i] = Evaluated(@),
                  !.currentObjectiveIndex = @ + 1]

\* the mission whose objective i (counted from 1) has been completed: the
\* next objective revealed and made the current one, if there is one
Advanced1(mission, i) ==
  IF i < Len(mission.objectives)
  THEN [mission EXCEPT !.objectives[i] = Evaluated(@),
                       !.objectives[i + 1].isHidden = FALSE,
                       !.currentObjectiveIndex = @ + 1]
  ELSE [mission EXCEPT !.objectives[i] = Evaluated(@)]

\* the callback of activeMissions.map
Progressed(mission) ==
  IF mission.status # "ACTIVE" THEN mission
  ELSE IF mission.currentObjectiveIndex + 1 \notin 1..Len(mission.objectives)
       THEN mission
       ELSE IF mission.objectives[mission.currentObjectiveIndex + 1].isComplete
            THEN mission
            ELSE IF objectiveCompleted(mission.objectives[mission.currentObjectiveIndex + 1])
                 THEN Advanced1(mission, mission.currentObjectiveIndex + 1)
                 ELSE [mission EXCEPT
                         !.objectives[mission.currentObjectiveIndex + 1] = Evaluated(@)]

\* updateMissionProgress(gameState) on the state of the store, the result
\* taken as the new state
UpdateMissionProgress ==
  /\ StationCall("updateMissionProgress", 0, "returned")
  /\ activeMissions' = [n \in 1..Len(activeMissions) |-> Progressed(activeMissions[n])]
  /\ NothingSet
  /\ UNCHANGED <<currentSystem, discovered, enemies, projectiles, explosions, playerInput,
                 gameTime, storeIdCounter, factions, trackedMissionId, rocks>>

\* the station of the first system, where createInitialGameState finds it
StationPlace == [x |-> Pos(400), y |-> Pos(0)]

\* where the player is: at the start, exactly 50 from the gate, a little more
\* than 50 from it, and at the station
PlayerPlaces ==
  {InitialPlayer.position, [x |-> Pos(190), y |-> Pos(40)],
   [x |-> Pos(190), y |-> Pos(41)], StationPlace}

\* what the hold has: nothing, the materials of the gate, or one unit of iron
\* too few
Holds ==
  {<<>>,
   <<[id |-> "iron", quantity |-> 5, obj |-> 1], [id |-> "crystals", quantity |-> 2, obj |-> 2]>>,
   <<[id |-> "iron", quantity |-> 4, obj |-> 1], [id |-> "crystals", quantity |-> 2, obj |-> 2]>>}

\* the mission log number n
MissionLog(n) ==
  CASE n = 1 -> <<BountyMission, RepairMission>>
    [] n = 2 -> <<SmugglingMission, BountyHunted>>
    [] n = 3 -> <<RepairMission, EspionageMission>>
    [] OTHER -> <<[RepairMission EXCEPT !.status = "FAILED"], SmugglingMission>>

InitObjectives ==
  /\ GalaxyWithGate
  /\ \E at \in PlayerPlaces, hold \in Holds, n \in 1..4 :
       GameInProgress([InitialPlayer EXCEPT !.position = at, !.cargo = hold],
                      StartingCredits, MissionLog(n), UntouchedRocks)

NextObjectives ==
  \/ UpdateMissionProgress
  \/ \E systemId \in {1, 2} : JumpToSystem(systemId)
  \/ \E itemId \in {"iron", "crystals"} : AddCargo(itemId, 1)
  \/ RemoveCargo("iron", 1)

\* passes of updateMissionProgress, with jumps and cargo taken on or given
\* away in between
SpecObjectives == InitObjectives /\ [][NextObjectives]_vars

\* the index of the mission is within its objectives, the objectives before
\* it are complete and those after it are not
C22_InOrder(mission) ==
  /\ mission.currentObjectiveIndex \in 0..(Len(mission.objectives) - 1)
  /\ \A j \in 1..Len(mission.objectives) :
       /\ j < mission.currentObjectiveIndex + 1 => mission.objectives[j].isComplete
       /\ j > mission.currentObjectiveIndex + 1 => ~mission.objectives[j].isComplete

\* the index has not gone down and has grown by 1 at most
C22_Stepped(before, after) ==
  /\ after.currentObjectiveIndex >= before.currentObjectiveIndex
  /\ after.currentObjectiveIndex <= before.currentObjectiveIndex + 1

\* no objective but the current one has changed
C22_OnlyCurrent(before, after) ==
  \A j \in 1..Len(before.objectives) :
    j # before.currentObjectiveIndex + 1 => after.objectives[j] = before.objectives[j]

\* no objective but the current one has changed, except that the objective
\* after it is no longer hidden when the current one has been completed
C22_OnlyCurrentOrRevealed(before, after) ==
  \A j \in 1..Len(before.objectives) :
    j # before.currentObjectiveIndex + 1
      => \/ after.objectives[j] = before.objectives[j]
         \/ /\ j = before.currentObjectiveIndex + 2
            /\ after.objectives[j - 1].isComplete
            /\ after.objectives[j] = [before.objectives[j] EXCEPT !.isHidden = FALSE]

C23_Evaluates(mission) ==
  /\ mission.status = "ACTIVE"
  /\ mission.currentObjectiveIndex + 1 \in 1..Len(mission.objectives)
  /\ ~mission.objectives[mission.currentObjectiveIndex + 1].isComplete

\* the world objects of the current system with this id that are DAMAGED
C23_Damaged(targetId) ==
  { n \in 1..Len(worldObjects[currentSystem]) :
      /\ worldObjects[currentSystem][n].id = targetId
      /\ worldObjects[currentSystem][n].status = "DAMAGED" }

\* the player is within 50 of the world object and holds what it requires
C23_Ready(object) ==
  /\ distance(player.position, object.position) <= 500
  /\ \A n \in 1..Len(object.requiredItems) :
       C11_Held(player.cargo, object.requiredItems[n].itemId)
         >= object.requiredItems[n].required

\* the objective o, not complete before the pass, is as its type rules
C23_Ruled(o, after) ==
  CASE o.type = "TRAVEL" -> after.isComplete <=> currentSystem = o.targetId
    [] o.type = "GATHER" ->
         /\ after.currentProgress = C11_Held(player.cargo, o.targetId)
         /\ after.isComplete <=> C11_Held(player.cargo, o.targetId) >= o.targetCount
    [] o.type = "KILL" -> after.isComplete <=> o.currentProgress >= o.targetCount
    [] o.type = "INTERACT" /\ C23_Damaged(o.targetId) # {} ->
         after.isComplete <=>
           \A n \in C23_Damaged(o.targetId) : C23_Ready(worldObjects[currentSystem][n])
    [] OTHER -> TRUE

\* the index has moved on exactly when the objective was completed and was
\* not the last one
C23_Moved(before, after) ==
  after.currentObjectiveIndex =
    IF /\ after.objectives[before.currentObjectiveIndex + 1].isComplete
       /\ before.currentObjectiveIndex + 1 < Len(before.objectives)
    THEN before.currentObjectiveIndex + 1
    ELSE before.currentObjectiveIndex

\* C23: a pass of updateMissionProgress marks the current objective of an
\* ACTIVE mission complete exactly when the rule of its type holds (TRAVEL:
\* the current system is targetId; GATHER: the quantity of targetId in the
\* cargo, copied into currentProgress, is at least targetCount; KILL:
\* currentProgress is at least targetCount; INTERACT with a DAMAGED world
\* object of the current system: the player is within 50 of it and holds
\* every required item), and on completion the index moves on unless the
\* objective is the last one.
C23_TypeRules ==
  [][last'.op = "updateMissionProgress" /\ calls' = calls + 1
     => \A n \in 1..Len(activeMissions) :
          C23_Evaluates(activeMissions[n])
            => /\ C23_Ruled(activeMissions[n].objectives[
                              activeMissions[n].currentObjectiveIndex + 1],
                            activeMissions'[n].objectives[
                              activeMissions[n].currentObjectiveIndex + 1])
               /\ C23_Moved(activeMissions[n], activeMissions'[n])]_vars

\* three passes have completed the repair mission: both materials gathered
\* and the gate reached
C23_Witness ==
  /\ last.op = "updateMissionProgress"
  /\ \E n \in 1..Len(activeMissions) :
       /\ activeMissions[n].type = "REPAIR"
       /\ activeMissions[n].status = "ACTIVE"
       /\ activeMissions[n].currentObjectiveIndex = 2
       /\ activeMissions[n].objectives[3].isComplete
       /\ activeMissions[n].objectives[3].currentProgress = 1

\* the current objective of the mission is an INTERACT with the station of
\* the first system, and the player is in that system within 50 of the station
C24_AtStation(mission) ==
  /\ C23_Evaluates(mission)
  /\ mission.objectives[mission.currentObjectiveIndex + 1].type = "INTERACT"
  /\ mission.objectives[mission.currentObjectiveIndex + 1].targetId = stations[1][1].id
  /\ currentSystem = 1
  /\ distance(player.position, StationPlace) <= 500

\* C24: an INTERACT objective whose target is a station (the pickup and the
\* delivery of a smuggling mission) is completed by a pass of
\* updateMissionProgress when the player is in the system of the station and
\* within the interaction radius of it.
C24_StationInteract ==
  [][last'.op = "updateMissionProgress" /\ calls' = calls + 1
     => \A n \in 1..Len(activeMissions) :
          C24_AtStation(activeMissions[n])
            => activeMissions'[n].objectives[
                 activeMissions[n].currentObjectiveIndex + 1].isComplete]_vars

(***************************************************************************)
(* SpaceshipPhysicsEngine.updateShipState on its own: the calls that       *)
(* updatePlayerPhysicsInternal makes for the ship of the loop.             *)
(***************************************************************************)
\* the number of calls of updateShipState that are followed
MaxTurns == 6

\* the velocities of the ships handed to the first call: at rest, and above
\* the maximum speed by a little and by much
Velocities ==
  {[x |-> 0, y |-> 0], [x |-> -3060, y |-> 4080], [x |-> 30000, y |-> -30000]}

\* the target angles of the input: quarter turns in [-pi, pi]
TargetAngles == {-900, 0, 900, 1800}

\* the loop after start() has copied the ship p
LoopStarted(p) ==
  /\ isRunning = TRUE
  /\ animationFrameId = 1
  /\ lastTime = 0
  /\ lastStateUpdate = 0
  /\ internalPlayerState = p
  /\ internalEnemies = <<>>
  /\ internalProjectiles = <<>>
  /\ internalExplosions = <<>>
  /\ gameLoopIdCounter = 0
  /\ clock = 0
  /\ pendingFrames = {1}
  /\ nextFrameId = 2

\* updatePlayerPhysicsInternal(state, deltaTime) for state.playerInput = input:
\* one call of updateShipState, written back to the ship of the loop
UpdatePlayerPhysicsInternal(input) ==
  /\ ticks < MaxTurns
  /\ ticks' = ticks + 1
  /\ last' = [op |-> "updateShipState", arg |-> input.targetAngle]
  /\ internalPlayerState' = updatePlayerPhysicsInternal(internalPlayerState, input)
  /\ UNCHANGED <<galaxyVars, storeVars, browserVars, stationVars, sharedArrays>>
  /\ UNCHANGED <<isRunning, animationFrameId, lastTime, lastStateUpdate, internalEnemies,
                 internalProjectiles, internalExplosions, gameLoopIdCounter>>
  /\ UNCHANGED <<calls, syncs, thrown, syncedAt, preJump>>

InitPhysics ==
  /\ GalaxyDone
  /\ \E velocity \in Velocities :
       /\ GameLoaded([InitialPlayer EXCEPT !.velocity = velocity],
                     StartingCredits, <<>>, UntouchedRocks)
       /\ LoopStarted([InitialPlayer EXCEPT !.velocity = velocity])
  /\ InitHistory

NextPhysics ==
  \E isThrusting \in BOOLEAN, targetAngle \in TargetAngles :
    UpdatePlayerPhysicsInternal([isThrusting |-> isThrusting,
                                 targetAngle |-> targetAngle])

\* updateShipState called again and again on the ship it returned
SpecPhysics == InitPhysics /\ [][NextPhysics]_vars

\* the velocity of the ship before the clamp of the call that turned it to
\* the rotation given: thrust and friction applied
C25_BeforeClamp(ship, isThrusting, rotation) ==
  [x |-> Accelerated(ship.velocity.x, isThrusting, Cos1000(rotation)),
   y |-> Accelerated(ship.velocity.y, isThrusting, Sin1000(rotation))]

\* the speed of v is at most MAX_VELOCITY, to the 2/10000 of a unit that the
\* rounded square root and the rounded quotients of the clamp can add
C25_WithinMaximum(v) ==
  v.x * v.x + v.y * v.y <= (MAX_VELOCITY + 2) * (MAX_VELOCITY + 2)

\* v points where w points: no component against it, and the cross product
\* within the rounding of v's components to 1/10000 of a unit
C25_SameDirection(v, w) ==
  /\ v.x * w.x >= 0
  /\ v.y * w.y >= 0
  /\ 2 * MathAbs(v.x * w.y - v.y * w.x) <= MathAbs(w.x) + MathAbs(w.y)

\* the velocity `after` is the velocity `before` the clamp, scaled down when
\* that one was above the maximum speed and the same otherwise
C25_Clamped(before, after) ==
  /\ C25_WithinMaximum(after)
  /\ C25_SameDirection(after, before)
  /\ before.x * before.x + before.y * before.y <= MAX_VELOCITY * MAX_VELOCITY
       => after = before

\* C25: after every call of updateShipState, for a ship at any speed (also
\* above the maximum) and any input, the speed of the returned state is at
\* most MAX_VELOCITY and its velocity has the direction that the velocity had
\* before the clamp.
C25_SpeedClamped ==
  [][ticks' = ticks + 1 =>
       \E isThrusting \in BOOLEAN :
         /\ internalPlayerState' =
              updatePlayerPhysicsInternal(internalPlayerState,
                                          [isThrusting |-> isThrusting,
                                           targetAngle |-> last'.arg])
         /\ C25_Clamped(C25_BeforeClamp(internalPlayerState, isThrusting,
                                        internalPlayerState'.rotation),
                        internalPlayerState'.velocity)]_vars

\* a ship above the maximum speed across both axes has been through one call
\* and came out slower, at the maximum
C25_Witness ==
  /\ last.op = "updateShipState"
  /\ ticks = 1
  /\ player.velocity = [x |-> 30000, y |-> -30000]
  /\ internalPlayerState.velocity.x > 0
  /\ internalPlayerState.velocity.y < 0
  /\ internalPlayerState.velocity.x < 5000
  /\ internalPlayerState.position # player.position

\* C26: every call of updateShipState turns the short way: for the rotation
\* of a ship that starts at 0 and is steered with target angles in [-pi, pi],
\* the angular difference that is scaled lies in [-pi, pi], and the rotation
\* changes by at most pi times ROTATION_SPEED in one call.
C26_ShortWay ==
  [][ticks' = ticks + 1 =>
       /\ ShortestDelta(last'.arg - internalPlayerState.rotation) \in -1800..1800
       /\ 2 * MathAbs(internalPlayerState'.rotation - internalPlayerState.rotation)
            <= 1800]_vars

\* the loop has no enemy, projectile or explosion after the call, and the
\* store had none before it
C27_ListsEmpty ==
  /\ internalEnemies' = <<>> /\ internalProjectiles' = <<>> /\ internalExplosions' = <<>>
  /\ enemies = <<>> /\ projectiles = <<>> /\ explosions = <<>>

\* C27: a sync at which no field of the loop's player differs from the
\* store's by more than its threshold, and at which the enemy, projectile and
\* explosion lists are empty on both sides, writes nothing to the store.
C27_QuietSyncWritesNothing ==
  [][(/\ syncs' = syncs + 1
      /\ ~PlayerChanged(player, internalPlayerState')
      /\ C27_ListsEmpty)
       => UNCHANGED storeVars]_vars

\* the list of the loop after the call is written by its sync when it is not
\* empty or its length is not that of the list the store had
C28_Written(internal, before, after) ==
  (Len(internal) > 0 \/ Len(internal) # Len(before)) => after = internal

\* C28: at every sync the enemies, the projectiles and the explosions of the
\* loop are each written to the store when the loop's list is not empty or
\* differs in length from the store's.
C28_ListsWritten ==
  [][syncs' = syncs + 1 =>
       /\ C28_Written(internalEnemies', enemies, enemies')
       /\ C28_Written(internalProjectiles', projectiles, projectiles')
       /\ C28_Written(internalExplosions', explosions, explosions')]_vars

(***************************************************************************)
(* Spending credits at a station: buyItem, repairShip and refuelShip.      *)
(***************************************************************************)
\* the credits a game can have come to: none, too few for a repair, enough
\* for one, and plenty
Purses == {0, 100, 150, ShopCredits}

\* the ships that dock: unhurt or hit four times, the tank full or after
\* jumps, the hold empty or nearly full
Docked ==
  { [InitialPlayer EXCEPT !.health = health, !.fuel = fuel, !.cargo = cargo] :
      health \in {100, 40}, fuel \in {100, 30},
      cargo \in {<<>>, Laden("food", 16).cargo} }

\* what the station sells in the model
Goods == {"food", "pulse-cannon", "cargo-hold", "energy-cell", "armor-plating"}

\* marketData.price of a commodity, module.price of a module
PriceOf(itemId) == IF itemId \in CommodityIds THEN 50 ELSE ModulePrice(itemId)

InitSpending ==
  /\ GalaxyDone
  /\ \E p \in Docked, c \in Purses : GameInProgress(p, c, <<>>, UntouchedRocks)

NextSpending ==
  \/ \E itemId \in Goods, quantity \in {1, 5} : BuyItem(itemId, quantity, PriceOf(itemId))
  \/ SellItem("food", 1, 50)
  \/ RepairShip
  \/ RefuelShip

\* the store actions that spend credits, and a sale
SpecSpending == InitSpending /\ [][NextSpending]_vars

\* the quantity of the item in the cargo of the ship
C29_Held(ship, itemId) ==
  IF FindCargo(ship.cargo, itemId) = 0 THEN 0
  ELSE ship.cargo[FindCargo(ship.cargo, itemId)].quantity

\* the three reasons for which buyItem is rejected
C29_Rejected(itemId, quantity, price) ==
  \/ credits < price * quantity
  \/ itemId \in CommodityIds /\ CargoTotal(player.cargo) + quantity > player.maxCargo
  \/ /\ itemId \in ModuleIds
     /\ ModuleType(itemId) # "weapon"
     /\ Len(player.modules) >= ModuleSlots

\* the call changed neither the ship nor the credits
C29_Nothing == UNCHANGED <<player, credits>>

\* the goods are on board after the call: the quantity more of a commodity,
\* or the module installed
C29_OnBoard(itemId, quantity) ==
  IF itemId \in CommodityIds
  THEN /\ C29_Held(player', itemId) = C29_Held(player, itemId) + quantity
       /\ CargoTotal(player'.cargo) = CargoTotal(player.cargo) + quantity
  ELSE /\ \E n \in 1..Len(player'.modules) : player'.modules[n] = itemId
       /\ player'.cargo = player.cargo

\* buyItem either is rejected and changes nothing, or takes price * quantity
\* and delivers
C29_Bought(itemId, quantity, price) ==
  IF C29_Rejected(itemId, quantity, price) THEN C29_Nothing
  ELSE credits' = credits - price * quantity /\ C29_OnBoard(itemId, quantity)

\* a service that costs `cost` either changes nothing for want of credits, or
\* takes the cost and leaves the ship `served`
C29_Served(cost, served) ==
  IF credits < cost THEN C29_Nothing
  ELSE credits' = credits - cost /\ player' = served

\* C29: every spending action either takes exactly its cost and applies its
\* effect, or changes nothing: buyItem costs price * quantity and is rejected
\* for want of credits, of cargo space or (a module that is no weapon) of a
\* free slot; repairShip costs 2 * (maxHealth - health) and sets health to
\* maxHealth; refuelShip costs maxFuel - fuel and sets fuel to maxFuel; and
\* the credits are never negative.
C29_Spending ==
  /\ [](credits >= 0)
  /\ [][/\ \A itemId \in Goods, quantity \in {1, 5} :
             BuyItem(itemId, quantity, PriceOf(itemId))
               => C29_Bought(itemId, quantity, PriceOf(itemId))
        /\ RepairShip
             => C29_Served(2 * (player.maxHealth - player.health),
                           [player EXCEPT !.health = player.maxHealth])
        /\ RefuelShip
             => C29_Served(player.maxFuel - player.fuel,
                           [player EXCEPT !.fuel = player.maxFuel])]_vars

\* a ship hit four times has been repaired for 120 of its 150 credits, and
\* the refuelling that costs 70 was then rejected
C29_Witness ==
  /\ last.op = "refuelShip"
  /\ calls = 2
  /\ credits = 30
  /\ player.health = player.maxHealth
  /\ player.fuel = 30

(***************************************************************************)
(* GameLoop.ts: the dead are removed.                                      *)
(***************************************************************************)
\* a shot of an enemy that has reached the player, and a shot of the missile
\* launcher fitted in place of the basic laser that has reached the enemy
HeavyShots ==
  {[position |-> InitialPlayer.position, velocity |-> Origin, life |-> 60,
    damage |-> 15, owner |-> "enemy"],
   [position |-> EnemyPlace, velocity |-> Origin, life |-> 60,
    damage |-> WeaponDamage(<<"missile-launcher", "shield-booster">>),
    owner |-> "player"]}

\* the initial ship, unhurt or hit six or seven times by shots of 15 damage:
\* health 100, 10 or -5
InitAttrition ==
  /\ GalaxyDone
  /\ \E hits \in {0, 6, 7} :
       GameInProgress([InitialPlayer EXCEPT !.health = @ - 15 * hits],
                      StartingCredits, <<>>, UntouchedRocks)

NextAttrition ==
  \/ Start
  \/ \E f \in pendingFrames : Frame(f, 1)
  \/ \E projectile \in HeavyShots : AddProjectile(projectile)
  \/ AddEnemy(EnemyPlace)

\* the game loop with shots that kill handed to it
SpecAttrition == InitAttrition /\ [][NextAttrition]_vars

\* C30: at the end of every tick the lists of the loop hold no enemy with
\* health <= 0, no projectile with life <= 0 and no explosion with life <= 0,
\* while the player's ship stays in the simulation, also with health <= 0.
C30_DeadRemoved ==
  [][(ticks' = ticks + 1 /\ ~thrown') =>
       /\ \A n \in 1..Len(internalEnemies') : internalEnemies'[n].ship.health > 0
       /\ \A n \in 1..Len(internalProjectiles') : Greater(internalProjectiles'[n].life, 0)
       /\ \A n \in 1..Len(internalExplosions') : Greater(internalExplosions'[n].life, 0)
       /\ internalPlayerState' # Null]_vars

\* a tick has killed the enemy with two shots while the player had -5
\* health: the shots and the enemy are gone, the two explosions and the
\* player are there
C30_Witness ==
  /\ ticks = MaxTicks
  /\ ~thrown
  /\ internalPlayerState.health = -5
  /\ internalEnemies = <<>>
  /\ gameLoopIdCounter > 2
  /\ internalProjectiles = <<>>
  /\ Len(internalExplosions) = 2
  /\ internalExplosions[1].position # internalPlayerState.position

(***************************************************************************)
(* GameLoop.ts: projectiles and explosions run out.                        *)
(***************************************************************************)
\* addProjectile is called while fewer than MaxDecayIds ids have been handed
\* out by the loop
MaxDecayIds == 3

\* an explosion that a hit pushed 28/60 s ago: 2/60 s of its 0.5 s are left
OldExplosion ==
  [NewExplosion(EnemyPlace, 0) EXCEPT !.life = 2, !.scale = 30 + 28]

\* shots of an enemy with 1/60 s, 3/60 s and the whole second to live, far
\* from the player, and one that has reached the player
DecayShots ==
  {[position |-> EnemyPlace, velocity |-> Origin, life |-> life,
    damage |-> 15, owner |-> "enemy"] : life \in {1, 3, 60}}
  \cup {[position |-> InitialPlayer.position, velocity |-> Origin, life |-> 60,
         damage |-> 15, owner |-> "enemy"]}

\* a loop that has been running for a while (lastTime is the time of the
\* last frame), with an old explosion or none
InitDecay ==
  /\ GalaxyDone
  /\ GameLoaded(InitialPlayer, StartingCredits, <<>>, UntouchedRocks)
  /\ InitHistory
  /\ isRunning = TRUE
  /\ animationFrameId = 1
  /\ lastTime = 0
  /\ lastStateUpdate = 0
  /\ internalPlayerState = InitialPlayer
  /\ internalEnemies = <<>>
  /\ internalProjectiles = <<>>
  /\ internalExplosions \in {<<>>, <<OldExplosion>>}
  /\ gameLoopIdCounter = 1
  /\ clock = 0
  /\ pendingFrames = {1}
  /\ nextFrameId = 2

\* a frame whose tick body does not throw
QuietFrame == \E f \in pendingFrames, gap \in {1, 2} : Frame(f, gap) /\ ~thrown'

NextDecay ==
  \/ QuietFrame
  \/ \E projectile \in DecayShots :
       gameLoopIdCounter < MaxDecayIds /\ AddProjectile(projectile)

\* the browser calls a frame that was requested: while a frame is pending and
\* ticks are still followed, a tick comes (the steps of NextDecay that count
\* a tick are those of QuietFrame)
FrameDue == pendingFrames # {} /\ ticks < MaxTicks /\ ticks' = ticks + 1

\* the running loop with frames that keep coming
SpecDecay == InitDecay /\ [][NextDecay]_vars /\ WF_ticks(FrameDue)

\* the entity with the id is in the list
C31_Held(list, id) == \E n \in 1..Len(list) : list[n].id = id

\* the life of the entity with the id in the list
C31_Life(list, id) == list[CHOOSE n \in 1..Len(list) : list[n].id = id].life

\* every entity of the list `before` that is in the list `after` has less
\* life there, or not more when no tick ran
C31_Decayed(before, after, ticked) ==
  \A n \in 1..Len(before), m \in 1..Len(after) :
    before[n].id = after[m].id
      => IF ticked THEN Less(after[m].life, before[n].life)
         ELSE after[m].life = before[n].life

\* the projectile with the c-th id of the loop leaves the list when the
\* ticks that are still followed are enough for its life at one 60th of a
\* second a tick
C31_ProjectileRunsOut(c) ==
  (/\ C31_Held(internalProjectiles, generateUniqueGameId("proj", c))
   /\ C31_Life(internalProjectiles, generateUniqueGameId("proj", c)) <= MaxTicks - ticks)
    ~> ~C31_Held(internalProjectiles, generateUniqueGameId("proj", c))

\* the same for the explosion with the c-th id
C31_ExplosionRunsOut(c) ==
  (/\ C31_Held(internalExplosions, generateUniqueGameId("explosion", c))
   /\ C31_Life(internalExplosions, generateUniqueGameId("explosion", c)) <= MaxTicks - ticks)
    ~> ~C31_Held(internalExplosions, generateUniqueGameId("explosion", c))

\* C31: the life of a projectile and of an explosion held by the running
\* loop gets less with every tick and never grows, and with frames that keep
\* coming every one of them is removed in the end.
C31_RunOut ==
  /\ [][/\ C31_Decayed(internalProjectiles, internalProjectiles', ticks' # ticks)
        /\ C31_Decayed(internalExplosions, internalExplosions', ticks' # ticks)]_vars
  /\ \A c \in 1..(MaxDecayIds + MaxShots) :
       C31_ProjectileRunsOut(c) /\ C31_ExplosionRunsOut(c)

\* a shot with 3/60 s to live has gone through two ticks and is still held,
\* and the old explosion has run out
C31_Witness ==
  /\ ticks = 2
  /\ internalExplosions = <<>>
  /\ gameLoopIdCounter > 1
  /\ \E n \in 1..Len(internalProjectiles) : internalProjectiles[n].life = 1

(***************************************************************************)
(* A bounty: the target of a KILL objective in the game loop.              *)
(***************************************************************************)
\* where the bounty target waits: 900 right of the player's start, out of the
\* 800 within which an enemy chases the player
BountyPlace == [x |-> InitialPlayer.position.x + Pos(900), y |-> InitialPlayer.position.y]

\* bountyTarget of generateBountyMission: the elite enemy whose id is the
\* targetId of the KILL objective
BountyTarget ==
  [NewEnemy(BountyPlace, BountyMission.objectives[2].targetId,
            BountyMission.objectives[2].targetId, 0)
   EXCEPT !.ship.health = 120, !.ship.maxHealth = 120,
          !.ship.shields = Stat(60), !.ship.maxShields = Stat(60),
          !.ship.energy = Stat(150), !.ship.maxEnergy = Stat(150)]

\* the bounty after a pass of updateMissionProgress with the player in the
\* target system: the KILL objective is the current one
BountyTracked ==
  [BountyMission EXCEPT !.currentObjectiveIndex = 1,
                        !.objectives[1].isComplete = TRUE,
                        !.objectives[1].currentProgress = 1,
                        !.objectives[2].isHidden = FALSE]

\* addEnemy(bountyTarget): both ids are set, none is generated
AddBountyTarget ==
  /\ internalEnemies = <<>>
  /\ LoopCall("addEnemy")
  /\ internalEnemies' = Append(internalEnemies, BountyTarget)
  /\ UNCHANGED <<internalProjectiles, gameLoopIdCounter>>

\* a shot of the missile launcher that has reached the bounty target
BountyShot ==
  [position |-> BountyPlace, velocity |-> Origin, life |-> 60,
   damage |-> WeaponDamage(<<"missile-launcher", "shield-booster">>),
   owner |-> "player"]

\* a loop that has been running for a while, and the bounty accepted and
\* tracked to its KILL objective
InitBounty ==
  /\ GalaxyDone
  /\ GameLoaded(InitialPlayer, StartingCredits, <<BountyTracked>>, UntouchedRocks)
  /\ InitHistory
  /\ LoopStarted(InitialPlayer)

NextBounty ==
  \/ \E f \in pendingFrames : Frame(f, 1)
  \/ AddBountyTarget
  \/ AddProjectile(BountyShot)
  \/ UpdateMissionProgress

\* the bounty target hunted down in the game loop, with passes of
\* updateMissionProgress
SpecBounty == InitBounty /\ [][NextBounty]_vars

\* the objective the mission is at
C32_Current(mission) == mission.objectives[mission.currentObjectiveIndex + 1]

\* the step is a tick that removed the enemy with the id from the loop
C32_Destroyed(id) ==
  /\ ticks' = ticks + 1
  /\ \E n \in 1..Len(internalEnemies) : internalEnemies[n].id = id
  /\ \A n \in 1..Len(internalEnemies') : internalEnemies'[n].id # id

\* C32: when the game loop removes an enemy whose id is the targetId of the
\* current KILL objective of an active mission, the currentProgress of that
\* objective is incremented.
C32_KillCounted ==
  [][\A n \in 1..Len(activeMissions) :
       (/\ activeMissions[n].status = "ACTIVE"
        /\ C32_Current(activeMissions[n]).type = "KILL"
        /\ C32_Destroyed(C32_Current(activeMissions[n]).targetId))
         => /\ Len(activeMissions') = Len(activeMissions)
            /\ C32_Current(activeMissions'[n]).currentProgress
                 = C32_Current(activeMissions[n]).currentProgress + 1]_vars

\* C33: a tick that does not sync changes nothing that the store holds: the
\* player, the enemies with their positions and velocities, the projectiles,
\* the explosions and the rest of the store state change only at a sync or
\* through an action of the store.
C33_TickLeavesStore ==
  [][(ticks' = ticks + 1 /\ syncs' = syncs) => UNCHANGED storeVars]_vars

\* ---------------------------------------------------------------------
\* damaged gates and the connections of the finished galaxy

\* the pair of systems of entry n of plannedConnections is not directly
\* connected: neither system lists the other
C34_Apart(n) ==
  /\ ~Includes(connections[plannedConnections[n].from], plannedConnections[n].to)
  /\ ~Includes(connections[plannedConnections[n].to], plannedConnections[n].from)

\* C34: when generation has finished, the two systems of every pair that was
\* given a DamagedJumpGate (all of them still DAMAGED) are not directly
\* connected
C34_GateBlocks ==
  gpc = "content" =>
    \A n \in 1..Len(plannedConnections) : C34_Apart(n)

\* the connections list of system s holds no id twice
C39_NoRepeat(s) ==
  \A a, b \in 1..Len(connections[s]) :
    connections[s][a] = connections[s][b] => a = b

\* C39: when generation has finished, the connections form a simple
\* undirected graph: a system listed by another lists it back, no system
\* lists itself, and no connections list holds the same system twice
C39_SimpleGraph ==
  gpc = "content" =>
    \A s \in Systems :
      /\ \A t \in Systems : Includes(connections[s], t) => Includes(connections[t], s)
      /\ ~Includes(connections[s], s)
      /\ C39_NoRepeat(s)

\* ---------------------------------------------------------------------
\* the elapsed time of a tick

\* the deltaTime of the tick this step runs: start() calls loop() without an
\* argument (no time passes, currentTime is undefined); a frame calls it with
\* the time of the frame
C35_DeltaTime ==
  IF clock' = clock
  THEN ElapsedTime(NaN, clock)
  ELSE ElapsedTime(clock', lastTime)

\* C35: on every tick, the one start() runs included, the elapsed time handed
\* to the simulation is a number from 0 to the cap of 1/30 s
C35_ElapsedTimeDefined ==
  [][ticks' = ticks + 1 =>
       /\ ~IsNaN(C35_DeltaTime)
       /\ C35_DeltaTime >= 0
       /\ C35_DeltaTime <= MaxDeltaTime]_vars

\* ---------------------------------------------------------------------
\* missions turned in

\* the ids of the missions of the mission logs
LoggedIds == { <<t, "1">> : t \in {"bounty", "repair", "smuggling", "espionage"} }

NextTurnIn ==
  \/ NextObjectives
  \/ \E missionId \in LoggedIds : CompleteMission(missionId)

\* passes of updateMissionProgress and calls of completeMission for the
\* missions of the log, with jumps and cargo changes in between
SpecTurnIn == InitObjectives /\ [][NextTurnIn]_vars

\* the mission has an objective that is not complete
C36_Unfinished(mission) ==
  \E j \in 1..Len(mission.objectives) : ~mission.objectives[j].isComplete

\* C36: completeMission called for an active mission that still has an
\* incomplete objective changes neither the credits nor the reputations
C36_RewardAtEnd ==
  [][(/\ last'.op = "completeMission"
      /\ calls' = calls + 1
      /\ FindMission(activeMissions, last'.arg) # 0
      /\ C36_Unfinished(C14_Found(last'.arg)))
     => UNCHANGED <<credits, factions>>]_vars

\* C37: no mission id occurs twice in the list of active missions
C37_NoMissionTwice ==
  \A m, n \in 1..Len(activeMissions) :
    activeMissions[m].id = activeMissions[n].id => m = n

\* C38: the energy of the player is within 0..maxEnergy, whatever weapon
\* module is fitted
C38_EnergyInRange ==
  /\ ~IsNaN(player.energy)
  /\ 0 <= player.energy
  /\ player.energy <= player.maxEnergy

\* ---------------------------------------------------------------------
\* enemies spawned by the store while the loop runs

\* the loop simulates an enemy with this id, so it may have destroyed it
C40_Simulated(id) ==
  \E m \in 1..Len(internalEnemies) : internalEnemies[m].id = id

\* the store lists an enemy with this id after the step
C40_Listed(id) ==
  \E m \in 1..Len(enemies') : enemies'[m].id = id

\* C40: an enemy of the store's list is still in the list after a sync of the
\* loop, unless it was one the loop simulated and could destroy
C40_SpawnedStays ==
  [][syncs' = syncs + 1 =>
       \A n \in 1..Len(enemies) :
         C40_Simulated(enemies[n].id) \/ C40_Listed(enemies[n].id)]_vars

====
